---- MODULE Spec2Model ----
(***************************************************************************)
(* Model of the feta feature-targeting engine (crates/feta): the rule      *)
(* builder and bucketing, the feature builder and its validation, and      *)
(* Feature::decide.                                                        *)
(*                                                                         *)
(* Option<T> is modelled as a sequence: None == <<>>, Some(x) == <<x>>.    *)
(* Result<T, E> is modelled as a record [ok, val].                         *)
(* A u32 is modelled as a pair <<hi, lo>> of 16-bit halves.                *)
(***************************************************************************)
EXTENDS Integers, Sequences, FiniteSets, TLC

\* ------------------------------------------------------------------------
\* Bounds of the model
\* ------------------------------------------------------------------------

\* largest number of (variant, percentage) pairs pushed on one RuleBuilder
MaxPairs == 3

\* largest number of audience rules pushed on one FeatureBuilder
MaxAudienceRules == 2

\* the most calls of decide and decide_all the host counts on one registry
MaxCalls == 3

\* ------------------------------------------------------------------------
\* Option and Result
\* ------------------------------------------------------------------------

None == <<>>

Some(x) == <<x>>

IsSome(o) == Len(o) = 1

Unwrap(o) == o[1]

Ok(v) == [ok |-> TRUE, val |-> v]

Err(e) == [ok |-> FALSE, val |-> e]

\* ------------------------------------------------------------------------
\* error.rs
\* ------------------------------------------------------------------------

Configuration(msg) == [kind |-> "Configuration", msg |-> msg]

Request(msg) == [kind |-> "Request", msg |-> msg]

Targeting(msg) == [kind |-> "Targeting", msg |-> msg]

\* ------------------------------------------------------------------------
\* 32-bit unsigned arithmetic on <<hi, lo>> pairs
\* ------------------------------------------------------------------------

W16 == 2 ^ 16

U32(hi, lo) == <<hi, lo>>

\* x * y mod 2^16 for 16-bit x, y, without leaving 31 bits
MulMod16(x, y) == ((x * (y % 256)) + ((x * (y \div 256)) % 256) * 256) % W16

\* the upper 16 bits of the 32-bit product of 16-bit x and y
MulHigh16(x, y) ==
    LET p1 == x * (y % 256)
        p2 == x * (y \div 256)
    IN  ((p1 + (p2 % 256) * 256) \div W16) + (p2 \div 256)

wrapping_mul(a, b) ==
    U32((MulHigh16(a[2], b[2]) + MulMod16(a[1], b[2]) + MulMod16(a[2], b[1])) % W16,
        MulMod16(a[2], b[2]))

wrapping_add(a, b) ==
    U32((a[1] + b[1] + ((a[2] + b[2]) \div W16)) % W16, (a[2] + b[2]) % W16)

Pow2(n) == 2 ^ n

\* rotate left by r bits, 0 < r < 16
rotate_left(a, r) ==
    U32(((a[1] * Pow2(r)) % W16) + (a[2] \div Pow2(16 - r)),
        ((a[2] * Pow2(r)) % W16) + (a[1] \div Pow2(16 - r)))

\* logical shift right by r bits, 0 < r <= 16
shr(a, r) ==
    U32(a[1] \div Pow2(r), ((a[1] % Pow2(r)) * Pow2(16 - r)) + (a[2] \div Pow2(r)))

RECURSIVE Xor16(_, _, _)
Xor16(x, y, n) ==
    IF n = 0 THEN 0
    ELSE ((x + y) % 2) + 2 * Xor16(x \div 2, y \div 2, n - 1)

xor(a, b) == U32(Xor16(a[1], b[1], 16), Xor16(a[2], b[2], 16))

\* h % 100 of a u32: 65536 % 100 = 36
Mod100(h) == ((h[1] % 100) * 36 + (h[2] % 100)) % 100

\* ------------------------------------------------------------------------
\* murmur3::murmur3_32 (seed 0) as used by hash.rs
\* ------------------------------------------------------------------------

C1_ == U32(52382, 11601)  \* 0xcc9e2d51

C2_ == U32(7047, 13715)   \* 0x1b873593

N_ == U32(58964, 27492)   \* 0xe6546b64

F1_ == U32(34283, 51819)  \* 0x85ebca6b

F2_ == U32(49842, 44597)  \* 0xc2b2ae35

ByteAt(bytes, i) == IF i <= Len(bytes) THEN bytes[i] ELSE 0

\* little-endian word of the (up to four) bytes starting at position i
Word(bytes, i) ==
    U32(ByteAt(bytes, i + 2) + 256 * ByteAt(bytes, i + 3),
        ByteAt(bytes, i) + 256 * ByteAt(bytes, i + 1))

Scramble(k) == wrapping_mul(rotate_left(wrapping_mul(k, C1_), 15), C2_)

RECURSIVE Body(_, _, _)
Body(bytes, i, h) ==
    IF i + 3 <= Len(bytes)
    THEN Body(bytes, i + 4,
              wrapping_add(wrapping_mul(rotate_left(xor(h, Scramble(Word(bytes, i))), 13),
                                        U32(0, 5)), N_))
    ELSE IF i <= Len(bytes) THEN xor(h, Scramble(Word(bytes, i)))
    ELSE h

fmix32(h0) ==
    LET h1 == wrapping_mul(xor(h0, shr(h0, 16)), F1_)
        h2 == wrapping_mul(xor(h1, shr(h1, 13)), F2_)
    IN  xor(h2, shr(h2, 16))

\* a mistaken hash: the finalization mix is left out
murmur3_32_unfinalized(bytes, seed) == xor(Body(bytes, 1, seed), U32(0, Len(bytes)))

murmur3_32(bytes, seed) == fmix32(xor(Body(bytes, 1, seed), U32(0, Len(bytes))))

\* ------------------------------------------------------------------------
\* hash.rs
\* ------------------------------------------------------------------------

\* the UTF-8 bytes of the strings used as feature names and user keys
Bytes(s) ==
    CASE s = "" -> <<>>
      [] s = "a" -> <<97>>
      [] s = "b" -> <<98>>
      [] s = "c" -> <<99>>
      [] s = "ab" -> <<97, 98>>
      [] s = "bc" -> <<98, 99>>
      [] s = "abc" -> <<97, 98, 99>>
      [] s = "d" -> <<100>>
      [] s = "g" -> <<103>>
      [] s = "exp" -> <<101, 120, 112>>
      [] s = "f1" -> <<102, 49>>
      [] s = "f2" -> <<102, 50>>

\* the strings that occur as feature names and user keys
HashStrings == {"", "a", "b", "c", "d", "g", "ab", "bc", "abc", "exp", "f1", "f2"}

\* murmur3_32(feature || user_key, seed 0), tabulated over HashStrings
\* (@@ makes the table an explicit function, computed once)
HashTable ==
    [p \in HashStrings \X HashStrings |->
        murmur3_32(Bytes(p[1]) \o Bytes(p[2]), U32(0, 0))] @@ <<>>

\* a mistaken hash: a separator byte is put between the two strings
calculate_separated(feature, user_key) ==
    murmur3_32(Bytes(feature) \o <<0>> \o Bytes(user_key), U32(0, 0))

calculate(feature, user_key) == HashTable[<<feature, user_key>>]

\* ------------------------------------------------------------------------
\* value.rs
\* ------------------------------------------------------------------------

ValueTypes == {"Integer", "Float", "Boolean", "String"}

\* a Value is a tag and its payload (the payload written as text)
Null == [tag |-> "Null", v |-> "null"]

Integer(n) == [tag |-> "Integer", v |-> n]

Float(x) == [tag |-> "Float", v |-> x]

Boolean(b) == [tag |-> "Boolean", v |-> b]

String(s) == [tag |-> "String", v |-> s]

\* a mistaken type check: every value that is not Null passes
has_type_any(value, t) == value.tag # "Null"

\* a mistaken type check: Null passes for every type
has_type_nullable(value, t) == value.tag = "Null" \/ value.tag = t

has_type(value, t) ==
    \/ value.tag = "Integer" /\ t = "Integer"
    \/ value.tag = "Float" /\ t = "Float"
    \/ value.tag = "Boolean" /\ t = "Boolean"
    \/ value.tag = "String" /\ t = "String"

\* ------------------------------------------------------------------------
\* The expression capability (crate mexl), as the engine uses it:
\* compile(text) -> Program | error, run(program, env) -> Object | error.
\* A Program is modelled by its source text; an Environment by a function
\* from the attribute names that are set to their Objects.
\* ------------------------------------------------------------------------

\* The expression texts used: attribute names ("beta", "internal"), the
\* literal "true", a member access on a boolean ("true.a", fails at run time)
\* and a malformed text ("+2", fails to compile).

mexl_compile(expr) ==
    IF expr = "+2" THEN Err("compile error") ELSE Ok(expr)

mexl_run(program, env) ==
    CASE program = "true" -> Ok(Boolean("true"))
      [] program = "true.a" -> Err("runtime error")
      [] OTHER -> IF program \in DOMAIN env THEN Ok(env[program]) ELSE Ok(Null)

\* ------------------------------------------------------------------------
\* rule.rs: RuleBuilder
\* ------------------------------------------------------------------------

RuleBuilder_new == [percentages |-> <<>>, audience |-> None, is_default |-> FALSE]

RuleBuilder_variant(b, variant, percentage) ==
    [b EXCEPT !.percentages = Append(@, <<variant, percentage>>)]

RuleBuilder_audience(b, audience, expression) ==
    [b EXCEPT !.audience = Some(<<audience, expression>>)]

\* the value of `bound` after the first n pairs were mapped (u32; the sum of
\* at most MaxPairs + 1 u8 percentages never wraps)
RECURSIVE BoundAfter(_, _)
BoundAfter(percentages, n) ==
    IF n = 0 THEN 0 ELSE BoundAfter(percentages, n - 1) + percentages[n][2]

\* a mistaken bucket layout: every bucket starts at 0
MakeBucketsFromZero(percentages) ==
    [i \in 1..Len(percentages) |->
        [variant |-> percentages[i][1],
         lower_bound |-> 0,
         upper_bound |-> percentages[i][2]]]

MakeBuckets(percentages) ==
    [i \in 1..Len(percentages) |->
        [variant |-> percentages[i][1],
         lower_bound |-> BoundAfter(percentages, i - 1),
         upper_bound |-> BoundAfter(percentages, i - 1) + percentages[i][2]]]

\* a mistaken validation: only an overshoot is rejected
InvalidVariantConfigurationAbove(buckets, bound) == Len(buckets) = 0 \/ bound > 100

InvalidVariantConfiguration(buckets, bound) == Len(buckets) = 0 \/ bound # 100

BaseReason(buckets) == IF Len(buckets) = 1 THEN "Static" ELSE "Split"

\* a mistaken classification: the audience does not change the reason
AudienceReasonUnchanged(reason) == reason

AudienceReason(reason) ==
    CASE reason = "Static" -> "Match"
      [] reason = "Split" -> "MatchSplit"
      [] OTHER -> reason

\* a mistaken build: the expression is compiled before the buckets are checked
RuleBuilder_build_compiling_first(b) ==
    LET buckets == MakeBuckets(b.percentages)
        bound == BoundAfter(b.percentages, Len(b.percentages))
        reason == BaseReason(buckets)
        compiled == IF IsSome(b.audience) THEN mexl_compile(Unwrap(b.audience)[2])
                    ELSE Ok("")
    IN  IF IsSome(b.audience) /\ ~b.is_default /\ ~compiled.ok
        THEN Err(Targeting(compiled.val))
        ELSE IF InvalidVariantConfiguration(buckets, bound)
        THEN Err(Configuration("invalid variant configuration"))
        ELSE IF IsSome(b.audience)
        THEN IF b.is_default
             THEN Err(Configuration("audience not permitted for default rule"))
             ELSE Ok([buckets |-> buckets,
                      program |-> Some(compiled.val),
                      reason |-> AudienceReason(reason),
                      audience |-> Some(Unwrap(b.audience)[1])])
        ELSE Ok([buckets |-> buckets,
                 program |-> None,
                 reason |-> reason,
                 audience |-> None])

RuleBuilder_build(b) ==
    LET buckets == MakeBuckets(b.percentages)
        bound == BoundAfter(b.percentages, Len(b.percentages))
        reason == BaseReason(buckets)
    IN  IF InvalidVariantConfiguration(buckets, bound)
        THEN Err(Configuration("invalid variant configuration"))
        ELSE IF IsSome(b.audience)
        THEN IF b.is_default
             THEN Err(Configuration("audience not permitted for default rule"))
             ELSE LET compiled == mexl_compile(Unwrap(b.audience)[2])
                  IN  IF ~compiled.ok
                      THEN Err(Targeting(compiled.val))
                      ELSE Ok([buckets |-> buckets,
                               program |-> Some(compiled.val),
                               reason |-> AudienceReason(reason),
                               audience |-> Some(Unwrap(b.audience)[1])])
        ELSE Ok([buckets |-> buckets,
                 program |-> None,
                 reason |-> reason,
                 audience |-> None])

\* ------------------------------------------------------------------------
\* rule.rs: Rule
\* ------------------------------------------------------------------------

\* a mistaken evaluation: a runtime failure counts as "not applicable"
Rule_is_applicable_swallowing(rule, env) ==
    IF IsSome(rule.program)
    THEN LET result == mexl_run(Unwrap(rule.program), env)
         IN  IF ~result.ok THEN Ok(FALSE)
             ELSE Ok(result.val = Boolean("true"))
    ELSE Ok(TRUE)

\* a mistaken evaluation: every result but false and null counts as true
Rule_is_applicable_truthy(rule, env) ==
    IF IsSome(rule.program)
    THEN LET result == mexl_run(Unwrap(rule.program), env)
         IN  IF ~result.ok THEN Err(Targeting(result.val))
             ELSE Ok(result.val # Boolean("false") /\ result.val # Null)
    ELSE Ok(TRUE)

Rule_is_applicable(rule, env) ==
    IF IsSome(rule.program)
    THEN LET result == mexl_run(Unwrap(rule.program), env)
         IN  IF ~result.ok THEN Err(Targeting(result.val))
             ELSE Ok(result.val = Boolean("true"))
    ELSE Ok(TRUE)

\* a mistaken test: the upper bound belongs to the bucket
InBucketInclusive(b, hash_mod) == hash_mod >= b.lower_bound /\ hash_mod <= b.upper_bound

InBucket(b, hash_mod) == hash_mod >= b.lower_bound /\ hash_mod < b.upper_bound

\* a mistaken lookup: the hash is not reduced modulo 100
HashModTruncated(hash) == hash[2]

HashMod(hash) == Mod100(hash)

\* Some(variant) of the first bucket found, None where the code panics with
\* "invalid bucket configuration"
Rule_get_variant(rule, hash) ==
    LET hash_mod == HashMod(hash)
        found == {i \in 1..Len(rule.buckets) : InBucket(rule.buckets[i], hash_mod)}
    IN  IF found = {} THEN None
        ELSE Some(rule.buckets[CHOOSE i \in found : \A j \in found : i <= j].variant)

Rule_referenced_variants(rule) == [i \in 1..Len(rule.buckets) |-> rule.buckets[i].variant]

\* ------------------------------------------------------------------------
\* decision.rs: DecisionBuilder
\* ------------------------------------------------------------------------

DecisionBuilder_new ==
    [hash |-> U32(0, 0), variant |-> None, reason |-> "Unknown", value |-> Null,
     audience |-> None, error |-> None]

DecisionBuilder_hash(b, hash) == [b EXCEPT !.hash = hash]

DecisionBuilder_variant(b, variant) == [b EXCEPT !.variant = Some(variant)]

DecisionBuilder_value(b, value) == [b EXCEPT !.value = value]

DecisionBuilder_audience(b, audience) == [b EXCEPT !.audience = Some(audience)]

\* Option<String>::unwrap_or_default
unwrap_or_default(o) == IF IsSome(o) THEN Unwrap(o) ELSE ""

DecisionBuilder_build(b) ==
    [hash |-> b.hash, variant |-> unwrap_or_default(b.variant), reason |-> b.reason,
     value |-> b.value, audience |-> b.audience, error |-> b.error]

DecisionBuilder_disabled(b) == DecisionBuilder_build([b EXCEPT !.reason = "Disabled"])

DecisionBuilder_success(b, reason) == DecisionBuilder_build([b EXCEPT !.reason = reason])

\* a mistaken error: the reason is set and the error is not recorded
DecisionBuilder_error_reason_only(b, err) ==
    DecisionBuilder_build([b EXCEPT !.reason = "Error"])

\* a mistaken error outcome: the variant and the value set so far are dropped
DecisionBuilder_error_clearing(b, err) ==
    DecisionBuilder_build([b EXCEPT !.reason = "Error", !.error = Some(err),
                                    !.variant = DecisionBuilder_new.variant,
                                    !.value = DecisionBuilder_new.value])

DecisionBuilder_error(b, err) ==
    DecisionBuilder_build([b EXCEPT !.reason = "Error", !.error = Some(err)])

\* ------------------------------------------------------------------------
\* feature.rs: FeatureBuilder
\* ------------------------------------------------------------------------

EmptyMap == [k \in {} |-> Null]

\* HashMap::insert / BTreeMap::insert
MapInsert(m, key, value) ==
    [k \in DOMAIN m \cup {key} |-> IF k = key THEN value ELSE m[k]]

FeatureBuilder_new(value_type) ==
    [name |-> None, enabled |-> FALSE, value_type |-> value_type, variants |-> EmptyMap,
     default_variant |-> None, rules |-> <<>>, default_rule |-> None]

FeatureBuilder_name(b, name) == [b EXCEPT !.name = Some(name)]

FeatureBuilder_enabled(b, enabled) == [b EXCEPT !.enabled = enabled]

FeatureBuilder_variant(b, key, value) == [b EXCEPT !.variants = MapInsert(@, key, value)]

FeatureBuilder_default_variant(b, key) == [b EXCEPT !.default_variant = Some(key)]

FeatureBuilder_default_rule(b, rule) == [b EXCEPT !.default_rule = Some(rule)]

FeatureBuilder_audience_rule(b, rule) == [b EXCEPT !.rules = Append(@, rule)]

\* a mistaken check: only the default rule's variants are cross-validated
HasUndefinedVariantDefaultOnly(rules, variants) ==
    \E j \in 1..Len(rules[Len(rules)].buckets) :
        Rule_referenced_variants(rules[Len(rules)])[j] \notin DOMAIN variants

\* some rule references a variant name that the variant map lacks
HasUndefinedVariant(rules, variants) ==
    \E i \in 1..Len(rules) : \E j \in 1..Len(rules[i].buckets) :
        Rule_referenced_variants(rules[i])[j] \notin DOMAIN variants

\* a mistaken assembly: the default rule is put first
AssembleRulesDefaultFirst(rules, default_rule) == <<default_rule>> \o rules

\* self.rules.push(default_rule)
AssembleRules(rules, default_rule) == Append(rules, default_rule)

\* a mistaken check: a default rule with an expression is let through
DefaultRuleHasExpressionNever(default_rule) == FALSE

DefaultRuleHasExpression(default_rule) == IsSome(default_rule.program)

FeatureBuilder_build(b) ==
    IF \E k \in DOMAIN b.variants : ~has_type(b.variants[k], b.value_type)
    THEN Err(Configuration("all variants must have type"))
    ELSE IF ~IsSome(b.default_variant)
    THEN Err(Configuration("default variant is required"))
    ELSE IF Unwrap(b.default_variant) \notin DOMAIN b.variants
    THEN Err(Configuration("default variant does not exist"))
    ELSE IF ~IsSome(b.default_rule)
    THEN Err(Configuration("default rule is required"))
    ELSE IF DefaultRuleHasExpression(Unwrap(b.default_rule))
    THEN Err(Configuration("default rule must not have an expression"))
    ELSE LET rules == AssembleRules(b.rules, Unwrap(b.default_rule))
         IN  IF HasUndefinedVariant(rules, b.variants)
             THEN Err(Configuration("rule uses undefined variant"))
             ELSE IF ~IsSome(b.name)
             THEN Err(Configuration("feature name is required"))
             ELSE Ok([name |-> Unwrap(b.name),
                      enabled |-> b.enabled,
                      variants |-> b.variants,
                      default_variant |-> Unwrap(b.default_variant),
                      default_value |-> b.variants[Unwrap(b.default_variant)],
                      rules |-> rules])

\* ------------------------------------------------------------------------
\* feature.rs: Feature
\* ------------------------------------------------------------------------

Feature_variant_value(f, variant) ==
    IF variant \in DOMAIN f.variants THEN Ok(f.variants[variant])
    ELSE Err(Configuration("variant not defined: " \o variant))

\* the Environment built from ctx.attributes
\* a mistaken environment: the attributes of the context are not set
EnvOfNothing(ctx) == EmptyMap

EnvOf(ctx) == IF IsSome(ctx.attributes) THEN Unwrap(ctx.attributes) ELSE EmptyMap

\* a mistaken application: the rule's audience is not attached
RuleDecisionWithoutAudience(f, rule, hash, builder) ==
    LET variant == Rule_get_variant(rule, hash)
    IN  IF ~IsSome(variant) THEN None
        ELSE LET value == Feature_variant_value(f, Unwrap(variant))
             IN  IF value.ok
                 THEN Some(DecisionBuilder_success(
                          DecisionBuilder_value(
                              DecisionBuilder_variant(builder, Unwrap(variant)), value.val),
                          rule.reason))
                 ELSE Some(DecisionBuilder_error(builder, value.val))

\* the `if applicable { .. }` block of Feature::decide; None models the panic
\* of Rule::get_variant
RuleDecision(f, rule, hash, builder) ==
    LET variant == Rule_get_variant(rule, hash)
        b1 == IF IsSome(rule.audience)
              THEN DecisionBuilder_audience(builder, Unwrap(rule.audience))
              ELSE builder
    IN  IF ~IsSome(variant) THEN None
        ELSE LET value == Feature_variant_value(f, Unwrap(variant))
             IN  IF value.ok
                 THEN Some(DecisionBuilder_success(
                          DecisionBuilder_value(
                              DecisionBuilder_variant(b1, Unwrap(variant)), value.val),
                          rule.reason))
                 ELSE Some(DecisionBuilder_error(b1, value.val))

\* the body of `for rule in &self.rules` from the i-th rule on, and the
\* fall-through after the loop
RECURSIVE DecideFrom(_, _, _, _, _)
DecideFrom(f, env, hash, builder, i) ==
    IF i > Len(f.rules)
    THEN Some(DecisionBuilder_error(builder, Configuration("no applicable rules defined")))
    ELSE LET applicable == Rule_is_applicable(f.rules[i], env)
         IN  IF ~applicable.ok THEN Some(DecisionBuilder_error(builder, applicable.val))
             ELSE IF applicable.val THEN RuleDecision(f, f.rules[i], hash, builder)
             ELSE DecideFrom(f, env, hash, builder, i + 1)

\* a mistaken decide: the hash is computed after the enabled check
Feature_decide_hash_after_enabled(f, ctx) ==
    LET hash == calculate(f.name, ctx.user_key)
        builder == DecisionBuilder_value(
                       DecisionBuilder_variant(DecisionBuilder_new, f.default_variant),
                       f.default_value)
    IN  IF ~f.enabled THEN Some(DecisionBuilder_disabled(builder))
        ELSE DecideFrom(f, EnvOf(ctx), hash, DecisionBuilder_hash(builder, hash), 1)

\* a mistaken decide: the rules are evaluated although the feature is disabled
Feature_decide_ignoring_enabled(f, ctx) ==
    LET hash == calculate(f.name, ctx.user_key)
        builder == DecisionBuilder_hash(
                       DecisionBuilder_value(
                           DecisionBuilder_variant(DecisionBuilder_new, f.default_variant),
                           f.default_value),
                       hash)
    IN  DecideFrom(f, EnvOf(ctx), hash, builder, 1)

\* Some(decision), or None where the call panics
Feature_decide(f, ctx) ==
    LET hash == calculate(f.name, ctx.user_key)
        builder == DecisionBuilder_hash(
                       DecisionBuilder_value(
                           DecisionBuilder_variant(DecisionBuilder_new, f.default_variant),
                           f.default_value),
                       hash)
    IN  IF ~f.enabled THEN Some(DecisionBuilder_disabled(builder))
        ELSE DecideFrom(f, EnvOf(ctx), hash, builder, 1)

\* ------------------------------------------------------------------------
\* config.rs and feature.rs: building from configuration
\* ------------------------------------------------------------------------

\* the ascending order of the variant names, i.e. BTreeMap iteration order
KeyOrder == <<"", "a", "b", "c", "d">>

BucketingVariant(variant) == [kind |-> "Variant", variant |-> variant, distribution |-> EmptyMap]

BucketingDistribution(distribution) ==
    [kind |-> "Distribution", variant |-> "", distribution |-> distribution]

\* for (variant, percentage) in distribution { builder = builder.variant(..) }
\* a mistaken iteration: the distribution is walked from its last key
RECURSIVE PushDistributionDescending(_, _, _)
PushDistributionDescending(builder, distribution, i) ==
    IF i > Len(KeyOrder) THEN builder
    ELSE PushDistributionDescending(
             IF KeyOrder[Len(KeyOrder) + 1 - i] \in DOMAIN distribution
             THEN RuleBuilder_variant(builder, KeyOrder[Len(KeyOrder) + 1 - i],
                                      distribution[KeyOrder[Len(KeyOrder) + 1 - i]])
             ELSE builder,
             distribution, i + 1)

RECURSIVE PushDistribution(_, _, _)
PushDistribution(builder, distribution, i) ==
    IF i > Len(KeyOrder) THEN builder
    ELSE PushDistribution(
             IF KeyOrder[i] \in DOMAIN distribution
             THEN RuleBuilder_variant(builder, KeyOrder[i], distribution[KeyOrder[i]])
             ELSE builder,
             distribution, i + 1)

new_rule_builder(bucketing) ==
    IF bucketing.kind = "Variant"
    THEN RuleBuilder_variant(RuleBuilder_new, bucketing.variant, 100)
    ELSE PushDistribution(RuleBuilder_new, bucketing.distribution, 1)

default_rule_from_config(bucketing) == RuleBuilder_build(new_rule_builder(bucketing))

audience_rule_from_config(audience, bucketing, expr) ==
    RuleBuilder_build(RuleBuilder_audience(new_rule_builder(bucketing), audience, expr))

\* for (variant, value) in &cfg.variants { builder = builder.variant(..) }
RECURSIVE PushVariants(_, _, _)
PushVariants(builder, variants, i) ==
    IF i > Len(KeyOrder) THEN builder
    ELSE PushVariants(
             IF KeyOrder[i] \in DOMAIN variants
             THEN FeatureBuilder_variant(builder, KeyOrder[i], variants[KeyOrder[i]])
             ELSE builder,
             variants, i + 1)

\* for rule in &cfg.audience_rules { builder = builder.audience_rule(..?) }
RECURSIVE PushAudienceRules(_, _, _)
PushAudienceRules(builder, audience_rules, i) ==
    IF i > Len(audience_rules) THEN Ok(builder)
    ELSE LET r == audience_rule_from_config(audience_rules[i].name,
                                            audience_rules[i].bucketing,
                                            audience_rules[i].expression)
         IN  IF ~r.ok THEN r
             ELSE PushAudienceRules(FeatureBuilder_audience_rule(builder, r.val),
                                    audience_rules, i + 1)

Feature_from_config(name, cfg) ==
    LET default_rule == default_rule_from_config(cfg.default_rule.bucketing)
    IN  IF ~default_rule.ok THEN default_rule
        ELSE LET b0 == FeatureBuilder_default_rule(
                           FeatureBuilder_default_variant(
                               FeatureBuilder_enabled(
                                   FeatureBuilder_name(FeatureBuilder_new(cfg.value_type), name),
                                   cfg.enabled),
                               cfg.default_variant),
                           default_rule.val)
                 b1 == PushVariants(b0, cfg.variants, 1)
                 b2 == PushAudienceRules(b1, cfg.audience_rules, 1)
             IN  IF ~b2.ok THEN b2 ELSE FeatureBuilder_build(b2.val)

\* ------------------------------------------------------------------------
\* features.rs: the registry
\* ------------------------------------------------------------------------

\* the ascending order of the feature names, i.e. the iteration order of
\* config::Config::features (a BTreeMap)
FeatureOrder == <<"exp", "f1", "f2">>

\* Features::default()
\* a mistaken default: the registry starts with a feature in it
Features_preloaded ==
    [features |->
        [n \in {"exp"} |->
            Feature_from_config(
                n,
                [enabled |-> TRUE, value_type |-> "Integer",
                 variants |-> [k \in {"a"} |-> Integer("1")],
                 default_variant |-> "a", audience_rules |-> <<>>,
                 default_rule |-> [bucketing |-> BucketingVariant("a")]]).val]]

Features_default == [features |-> EmptyMap]

\* a mistaken loop: a feature that fails to build is left out
RECURSIVE InsertFeaturesSkipping(_, _, _)
InsertFeaturesSkipping(features, cfg, i) ==
    IF i > Len(FeatureOrder) THEN Ok([features |-> features])
    ELSE LET name == FeatureOrder[i]
         IN  IF name \notin DOMAIN cfg.features
             THEN InsertFeaturesSkipping(features, cfg, i + 1)
             ELSE LET f == Feature_from_config(name, cfg.features[name])
                  IN  IF ~f.ok THEN InsertFeaturesSkipping(features, cfg, i + 1)
                      ELSE InsertFeaturesSkipping(MapInsert(features, name, f.val), cfg, i + 1)

\* for (name, cfg) in &cfg.features { features.insert(.., Feature::from_config(name, cfg)?) }
\* from the i-th name on, and the Ok(Self { features }) after the loop
RECURSIVE InsertFeatures(_, _, _)
InsertFeatures(features, cfg, i) ==
    IF i > Len(FeatureOrder) THEN Ok([features |-> features])
    ELSE LET name == FeatureOrder[i]
         IN  IF name \notin DOMAIN cfg.features THEN InsertFeatures(features, cfg, i + 1)
             ELSE LET f == Feature_from_config(name, cfg.features[name])
                  IN  IF ~f.ok THEN f
                      ELSE InsertFeatures(MapInsert(features, name, f.val), cfg, i + 1)

Features_from_config(cfg) == InsertFeatures(EmptyMap, cfg, 1)

\* a mistaken lookup failure: the user key does not enter the hash
Features_decide_hashing_name(self, feature, ctx) ==
    IF feature \in DOMAIN self.features THEN Feature_decide(self.features[feature], ctx)
    ELSE Some(DecisionBuilder_error(
                  DecisionBuilder_hash(DecisionBuilder_new, calculate(feature, "")),
                  Request("invalid feature: " \o feature)))

\* a mistaken lookup failure: the hash of the request is not recorded
Features_decide_unhashed(self, feature, ctx) ==
    IF feature \in DOMAIN self.features THEN Feature_decide(self.features[feature], ctx)
    ELSE Some(DecisionBuilder_error(DecisionBuilder_new,
                                    Request("invalid feature: " \o feature)))

\* Some(decision), or None where the call panics
Features_decide(self, feature, ctx) ==
    IF feature \in DOMAIN self.features THEN Feature_decide(self.features[feature], ctx)
    ELSE Some(DecisionBuilder_error(
                  DecisionBuilder_hash(DecisionBuilder_new, calculate(feature, ctx.user_key)),
                  Request("invalid feature: " \o feature)))

\* a mistaken batch: the features whose decision is an Error are left out
Features_decide_all_dropping_errors(self, ctx) ==
    LET results == [name \in DOMAIN self.features |-> Feature_decide(self.features[name], ctx)]
        kept == {name \in DOMAIN results :
                    IsSome(results[name]) /\ Unwrap(results[name]).reason # "Error"}
    IN  IF \E name \in DOMAIN results : ~IsSome(results[name]) THEN None
        ELSE Some([name \in kept |-> Unwrap(results[name])])

\* Some(map of decisions), or None where the call panics
Features_decide_all(self, ctx) ==
    LET results == [name \in DOMAIN self.features |-> Feature_decide(self.features[name], ctx)]
    IN  IF \E name \in DOMAIN results : ~IsSome(results[name]) THEN None
        ELSE Some([name \in DOMAIN results |-> Unwrap(results[name])])

\* ------------------------------------------------------------------------
\* wasi: conversions of the binding
\* ------------------------------------------------------------------------

\* the Display of FetaError (thiserror #[error("... error: {0}")])
FetaError_to_string(e) ==
    CASE e.kind = "Configuration" -> "Configuration error: " \o e.msg
      [] e.kind = "Request" -> "Request error: " \o e.msg
      [] e.kind = "Targeting" -> "Targeting error: " \o e.msg

\* impl From<feta_core::Decision> for Decision
Decision_from(value) ==
    [value EXCEPT !.error = IF IsSome(value.error)
                            THEN Some(FetaError_to_string(Unwrap(value.error)))
                            ELSE None]

\* a mistaken event: the feature key is left out
Event_new_without_key(feature_key, user_key, d) ==
    [feature_key |-> "", user_key |-> user_key, variant |-> d.variant,
     reason |-> d.reason, value |-> d.value, audience |-> d.audience]

Event_new(feature_key, user_key, d) ==
    [feature_key |-> feature_key, user_key |-> user_key, variant |-> d.variant,
     reason |-> d.reason, value |-> d.value, audience |-> d.audience]

\* serde_json::from_str: a document is None where it does not deserialize,
\* Some(value) where it deserializes to value
serde_json_from_str(json) ==
    IF IsSome(json) THEN Ok(Unwrap(json)) ELSE Err("expected value at line 1 column 1")

\* ------------------------------------------------------------------------
\* Inputs of the operations
\* ------------------------------------------------------------------------

\* (variant, percentage: u8) pairs handed to RuleBuilder::variant; 50 + 40 = 90,
\* 50 + 60 = 110, 50 + 50 = 40 + 60 = 0 + 100 = 100
PairInputs == {"a", "b"} \X {0, 40, 50, 60, 100, 255}

\* (audience, expression) pairs handed to RuleBuilder::audience
AudienceInputs == {<<"beta", "beta">>, <<"boom", "true.a">>, <<"bad", "+2">>}

\* hashes handed to Rule::get_variant: the residues at and next to every
\* bound the percentages can produce (multiples of 10), the wrap at 100, and
\* hashes above 2^16 up to the largest u32 (4294967295 % 100 = 95)
HashInputs ==
    {U32(0, x) : x \in {y \in 0..100 : y % 10 \in {0, 1, 9}}}
        \cup {U32(0, 149), U32(1, 0), U32(32768, 0), U32(65535, 65535)}

\* environments handed to Rule::is_applicable: "beta" unset, true, false,
\* null, and set to values that are not booleans
EnvironmentInputs ==
    {EmptyMap} \cup
    {[k \in {"beta"} |-> v] :
        v \in {Boolean("true"), Boolean("false"), Null, Integer("1"), String("abc")}}

\* the builders whose Rules are handed to FeatureBuilder::default_rule and
\* FeatureBuilder::audience_rule
RuleBuilderInputs ==
    {RuleBuilder_variant(RuleBuilder_new, "a", 100),
     RuleBuilder_variant(RuleBuilder_variant(RuleBuilder_new, "a", 50), "b", 50),
     RuleBuilder_audience(RuleBuilder_variant(RuleBuilder_new, "b", 100), "beta", "beta"),
     RuleBuilder_audience(
         RuleBuilder_variant(RuleBuilder_variant(RuleBuilder_new, "b", 50), "a", 50),
         "internal", "internal"),
     RuleBuilder_audience(RuleBuilder_variant(RuleBuilder_new, "a", 100), "boom", "true.a"),
     RuleBuilder_variant(RuleBuilder_variant(RuleBuilder_new, "a", 50), "b", 40),
     RuleBuilder_audience(RuleBuilder_variant(RuleBuilder_new, "a", 100), "bad", "+2")}

\* a Rule exists only as the Ok result of RuleBuilder::build
RuleInputs == {RuleBuilder_build(b).val : b \in {x \in RuleBuilderInputs : RuleBuilder_build(x).ok}}

ValueTypeInputs == {"Integer", "String"}

\* (key, value) pairs handed to FeatureBuilder::variant
VariantInputs == {<<"a", Integer("1")>>, <<"b", Integer("2")>>, <<"b", String("abc")>>}

DefaultVariantInputs == {"a", "b"}

NameInputs == {"exp"}

UserKeyInputs == {"g", "b"}

AttributeInputs ==
    {None,
     Some([k \in {"beta"} |-> Boolean("true")]),
     Some([k \in {"beta"} |-> Boolean("false")]),
     Some([k \in {"beta"} |-> Integer("1")]),
     Some([k \in {"internal"} |-> Boolean("true")])}

ContextInputs == [user_key : UserKeyInputs, attributes : AttributeInputs]

IntegerVariants == [k \in {"a", "b"} |-> IF k = "a" THEN Integer("1") ELSE Integer("2")]

AudienceRuleConfig(name, expression, bucketing) ==
    [name |-> name, expression |-> expression, bucketing |-> bucketing]

FeatureConfig(enabled, default_rule, audience_rules) ==
    [enabled |-> enabled, value_type |-> "Integer", variants |-> IntegerVariants,
     default_variant |-> "a", audience_rules |-> audience_rules,
     default_rule |-> [bucketing |-> default_rule]]

HalfHalf == BucketingDistribution([k \in {"a", "b"} |-> 50])

\* configurations handed to Feature::from_config
ConfigInputs ==
    {FeatureConfig(TRUE, HalfHalf, <<AudienceRuleConfig("beta", "beta", BucketingVariant("b"))>>),
     FeatureConfig(FALSE, HalfHalf, <<AudienceRuleConfig("boom", "true.a", BucketingVariant("b"))>>),
     FeatureConfig(TRUE, BucketingVariant("a"), <<AudienceRuleConfig("bad", "+2", BucketingVariant("b"))>>),
     FeatureConfig(TRUE, BucketingDistribution([k \in {"a", "b"} |-> IF k = "a" THEN 50 ELSE 40]), <<>>),
     FeatureConfig(TRUE, BucketingVariant("c"), <<>>)}

\* a configuration with a variant whose name is the empty string
UnnamedVariantConfigInputs ==
    {[enabled |-> e, value_type |-> "Integer",
      variants |-> [k \in {"", "a"} |-> IF k = "" THEN Integer("0") ELSE Integer("1")],
      default_variant |-> "",
      audience_rules |-> <<AudienceRuleConfig("beta", "beta", BucketingVariant("a"))>>,
      default_rule |->
          [bucketing |-> BucketingDistribution([k \in {"", "a"} |-> 50])]] :
        e \in BOOLEAN}

\* feature definitions of the registry configurations: those of ConfigInputs
\* and an enabled feature whose audience expression fails when it is run
RegistryFeatureInputs ==
    ConfigInputs \cup
    {FeatureConfig(TRUE, HalfHalf, <<AudienceRuleConfig("boom", "true.a", BucketingVariant("b"))>>)}

FeatureNameInputs == {"exp", "f1", "f2"}

\* configurations handed to Features::from_config
RegistryConfigInputs ==
    {[features |-> m] :
        m \in UNION {[names -> RegistryFeatureInputs] : names \in SUBSET FeatureNameInputs}}

Reasons == {"Unknown", "Disabled", "Static", "Split", "Match", "MatchSplit", "Error"}

\* builders reached by the setters of DecisionBuilder
DecisionBuilderInputs ==
    LET hashed == DecisionBuilder_hash(DecisionBuilder_new, calculate("exp", "g"))
        valued == DecisionBuilder_value(DecisionBuilder_variant(hashed, "a"), Integer("1"))
    IN  {DecisionBuilder_new, hashed, valued, DecisionBuilder_audience(valued, "beta")}

ErrorInputs ==
    {Configuration("no applicable rules defined"), Request("invalid feature: exp"),
     Targeting("boom")}

\* the threads calling the exports of the component
Threads == {"t1", "t2"}

WasiFeatureA ==
    FeatureConfig(TRUE, HalfHalf, <<AudienceRuleConfig("beta", "beta", BucketingVariant("b"))>>)

WasiFeatureB ==
    FeatureConfig(FALSE, HalfHalf, <<AudienceRuleConfig("boom", "true.a", BucketingVariant("b"))>>)

WasiFeatureInvalid ==
    FeatureConfig(TRUE, BucketingDistribution([k \in {"a", "b"} |-> IF k = "a" THEN 50 ELSE 40]), <<>>)

\* the configuration documents handed to init: one that does not parse, two
\* valid configurations and one with a feature that fails validation
ConfigJsonInputs ==
    {None,
     Some([features |-> [n \in {"exp", "f1"} |->
                            IF n = "exp" THEN WasiFeatureA ELSE WasiFeatureB]]),
     Some([features |-> [n \in {"exp"} |-> WasiFeatureB]]),
     Some([features |-> [n \in {"exp", "f1"} |->
                            IF n = "exp" THEN WasiFeatureA ELSE WasiFeatureInvalid]])}

\* the context documents handed to decide and decide_all
ContextJsonInputs ==
    {None,
     Some([user_key |-> "g", attributes |-> Some([k \in {"beta"} |-> Boolean("true")])])}

FeatureKeyInputs == {"exp", "f1"}

\* (feature, user_key) pairs handed to hash::calculate: "abc" is split in
\* every way
HashPairInputs == {"", "a", "ab", "abc", "bc", "c"} \X {"", "a", "ab", "abc", "bc", "c"}

\* requests for names that no registry holds, with and without empty strings
UnregisteredNameInputs == {"", "exp", "ab"}

UnregisteredContextInputs == [user_key : {"", "g", "c"}, attributes : {None}]

\* ------------------------------------------------------------------------
\* State
\* ------------------------------------------------------------------------

VARIABLES
    rb,        \* the RuleBuilder in use (kept after build consumed it)
    ruleRes,   \* None, or Some(result of RuleBuilder::build)
    lookup,    \* None, or Some([hash, variant]) of the last Rule::get_variant
    applied,   \* None, or Some([env, result]) of the last Rule::is_applicable
    fb,        \* None, or Some(the FeatureBuilder in use, kept after build)
    featureCfg, \* None, or Some(the configuration given to Feature::from_config)
    featRes,   \* None, or Some(result of FeatureBuilder::build / from_config)
    decideCtx, \* None, or Some(the Context of the last Feature::decide)
    decision,  \* None, or Some(the Decision the last Feature::decide returned)
    panicked,  \* whether the last Feature::decide panicked
    featuresCfg, \* None, or Some(the configuration given to Features::from_config)
    featuresRes, \* None, or Some(result of Features::from_config)
    decided,     \* None, or Some([feature, ctx, decision]) of the last Features::decide
    decidedAll,  \* None, or Some([ctx, decisions]) of the last Features::decide_all
    built,       \* None, or Some([op, reason, decision]) of the last terminal
                 \* operation of a DecisionBuilder
    registry,    \* the Features held by the static FEATURES
    writer,      \* None, or Some(the thread holding the write lock of FEATURES)
    readers,     \* the threads holding the read lock of FEATURES
    pc,          \* for each thread, where it is in the export it called
    local,       \* for each thread, None or Some(the locals of its call)
    hashPrev,    \* None, or Some([feature, user_key, hash]) of the call of
                 \* hash::calculate before the last one
    hashCur,     \* None, or Some([feature, user_key, hash]) of the last call
                 \* of hash::calculate
    last,        \* for each thread, None or Some([op, args, ret, events]) of
                 \* the last export that returned
    host         \* what the host of the component has seen: the number of
                 \* tracking events received and of calls that returned since
                 \* the registry was last assigned, and whether an init
                 \* has failed or has succeeded so far

ruleVars == <<rb, ruleRes, lookup, applied>>

featureVars == <<fb, featureCfg, featRes, decideCtx, decision, panicked>>

registryVars == <<featuresCfg, featuresRes, decided, decidedAll, built>>

wasiVars == <<registry, writer, readers, pc, local, last>>

hashVars == <<hashPrev, hashCur>>

hostVars == <<host>>

vars == <<ruleVars, featureVars, registryVars, wasiVars, hashVars, hostVars>>

\* what the RuleBuilder and Rule operations leave alone
nonRuleVars == <<featureVars, registryVars, wasiVars, hashVars, hostVars>>

\* what the FeatureBuilder and Feature operations leave alone
nonFeatureVars == <<ruleVars, registryVars, wasiVars, hashVars, hostVars>>

\* what the Features and DecisionBuilder operations leave alone
nonRegistryVars == <<ruleVars, featureVars, wasiVars, hashVars, hostVars>>

\* what the exports of the component leave alone (the host is told of their
\* tracking events)
nonWasiVars == <<ruleVars, featureVars, registryVars, hashVars>>

\* what hash::calculate leaves alone
nonHashVars == <<ruleVars, featureVars, registryVars, wasiVars, hostVars>>

\* the host's view with no call counted
NoCalls(failed, initialised) ==
    [received |-> 0, decides |-> 0, alls |-> 0, refused |-> 0,
     failed |-> failed, initialised |-> initialised]

Init ==
    /\ rb = RuleBuilder_new
    /\ ruleRes = None
    /\ lookup = None
    /\ applied = None
    /\ fb = None
    /\ featureCfg = None
    /\ featRes = None
    /\ decideCtx = None
    /\ decision = None
    /\ panicked = FALSE
    /\ featuresCfg = None
    /\ featuresRes = None
    /\ decided = None
    /\ decidedAll = None
    /\ built = None
    /\ registry = Features_default
    /\ writer = None
    /\ readers = {}
    /\ pc = [t \in Threads |-> "idle"]
    /\ local = [t \in Threads |-> None]
    /\ last = [t \in Threads |-> None]
    /\ hashPrev = None
    /\ hashCur = None
    /\ host = NoCalls(FALSE, FALSE)

\* ------------------------------------------------------------------------
\* Operations on a RuleBuilder and its Rule
\* ------------------------------------------------------------------------

RbVariant(variant, percentage) ==
    /\ ruleRes = None
    /\ Len(rb.percentages) < MaxPairs
    /\ rb' = RuleBuilder_variant(rb, variant, percentage)
    /\ UNCHANGED <<ruleRes, lookup, applied, nonRuleVars>>

RbAudience(audience, expression) ==
    /\ ruleRes = None
    /\ rb' = RuleBuilder_audience(rb, audience, expression)
    /\ UNCHANGED <<ruleRes, lookup, applied, nonRuleVars>>

RbBuild ==
    /\ ruleRes = None
    /\ ruleRes' = Some(RuleBuilder_build(rb))
    /\ UNCHANGED <<rb, lookup, applied, nonRuleVars>>

\* lookup and applied record the last call made on the Rule
RuleGetVariant(hash) ==
    /\ IsSome(ruleRes)
    /\ Unwrap(ruleRes).ok
    /\ lookup' = Some([hash |-> hash, variant |-> Rule_get_variant(Unwrap(ruleRes).val, hash)])
    /\ applied' = None
    /\ UNCHANGED <<rb, ruleRes, nonRuleVars>>

RuleIsApplicable(env) ==
    /\ IsSome(ruleRes)
    /\ Unwrap(ruleRes).ok
    /\ applied' = Some([env |-> env, result |-> Rule_is_applicable(Unwrap(ruleRes).val, env)])
    /\ lookup' = None
    /\ UNCHANGED <<rb, ruleRes, nonRuleVars>>

\* the Rule (or the error) is dropped and a new builder is started
RbNew ==
    /\ IsSome(ruleRes)
    /\ rb' = RuleBuilder_new
    /\ ruleRes' = None
    /\ lookup' = None
    /\ applied' = None
    /\ UNCHANGED nonRuleVars

NextRule ==
    \/ \E p \in PairInputs : RbVariant(p[1], p[2])
    \/ \E a \in AudienceInputs : RbAudience(a[1], a[2])
    \/ RbBuild
    \/ \E h \in HashInputs : RuleGetVariant(h)
    \/ \E e \in EnvironmentInputs : RuleIsApplicable(e)
    \/ RbNew

SpecRule == Init /\ [][NextRule]_vars

\* ------------------------------------------------------------------------
\* Operations on a FeatureBuilder and its Feature
\* ------------------------------------------------------------------------

Building == IsSome(fb) /\ featRes = None

FbNew(value_type) ==
    /\ fb = None
    /\ featRes = None
    /\ fb' = Some(FeatureBuilder_new(value_type))
    /\ UNCHANGED <<featureCfg, featRes, decideCtx, decision, panicked, nonFeatureVars>>

FbName(name) ==
    /\ Building
    /\ fb' = Some(FeatureBuilder_name(Unwrap(fb), name))
    /\ UNCHANGED <<featureCfg, featRes, decideCtx, decision, panicked, nonFeatureVars>>

FbEnabled(enabled) ==
    /\ Building
    /\ fb' = Some(FeatureBuilder_enabled(Unwrap(fb), enabled))
    /\ UNCHANGED <<featureCfg, featRes, decideCtx, decision, panicked, nonFeatureVars>>

FbVariant(key, value) ==
    /\ Building
    /\ fb' = Some(FeatureBuilder_variant(Unwrap(fb), key, value))
    /\ UNCHANGED <<featureCfg, featRes, decideCtx, decision, panicked, nonFeatureVars>>

FbDefaultVariant(key) ==
    /\ Building
    /\ fb' = Some(FeatureBuilder_default_variant(Unwrap(fb), key))
    /\ UNCHANGED <<featureCfg, featRes, decideCtx, decision, panicked, nonFeatureVars>>

FbDefaultRule(rule) ==
    /\ Building
    /\ fb' = Some(FeatureBuilder_default_rule(Unwrap(fb), rule))
    /\ UNCHANGED <<featureCfg, featRes, decideCtx, decision, panicked, nonFeatureVars>>

FbAudienceRule(rule) ==
    /\ Building
    /\ Len(Unwrap(fb).rules) < MaxAudienceRules
    /\ fb' = Some(FeatureBuilder_audience_rule(Unwrap(fb), rule))
    /\ UNCHANGED <<featureCfg, featRes, decideCtx, decision, panicked, nonFeatureVars>>

FbBuild ==
    /\ Building
    /\ featRes' = Some(FeatureBuilder_build(Unwrap(fb)))
    /\ UNCHANGED <<fb, featureCfg, decideCtx, decision, panicked, nonFeatureVars>>

FromConfig(name, c) ==
    /\ fb = None
    /\ featRes = None
    /\ featureCfg' = Some(c)
    /\ featRes' = Some(Feature_from_config(name, c))
    /\ UNCHANGED <<fb, decideCtx, decision, panicked, nonFeatureVars>>

Decide(c) ==
    /\ IsSome(featRes)
    /\ Unwrap(featRes).ok
    /\ LET d == Feature_decide(Unwrap(featRes).val, c)
       IN  /\ decideCtx' = Some(c)
           /\ decision' = d
           /\ panicked' = ~IsSome(d)
    /\ UNCHANGED <<fb, featureCfg, featRes, nonFeatureVars>>

\* the Feature (or the error) is dropped
FeatureDrop ==
    /\ IsSome(featRes)
    /\ fb' = None
    /\ featureCfg' = None
    /\ featRes' = None
    /\ decideCtx' = None
    /\ decision' = None
    /\ panicked' = FALSE
    /\ UNCHANGED nonFeatureVars

Next ==
    \/ \E t \in ValueTypeInputs : FbNew(t)
    \/ \E n \in NameInputs : FbName(n)
    \/ \E e \in BOOLEAN : FbEnabled(e)
    \/ \E v \in VariantInputs : FbVariant(v[1], v[2])
    \/ \E k \in DefaultVariantInputs : FbDefaultVariant(k)
    \/ \E r \in RuleInputs : FbDefaultRule(r)
    \/ \E r \in RuleInputs : FbAudienceRule(r)
    \/ FbBuild
    \/ \E n \in NameInputs, c \in ConfigInputs \cup UnnamedVariantConfigInputs : FromConfig(n, c)
    \/ \E c \in ContextInputs : Decide(c)
    \/ FeatureDrop

Spec == Init /\ [][Next]_vars

\* ------------------------------------------------------------------------
\* FeatureBuilder over every ValueType and every kind of Value
\* ------------------------------------------------------------------------

\* one value of each kind of Value
ValueInputs == {Null, Integer("1"), Float("1.5"), Boolean("true"), String("abc")}

\* the unconditional rule a:100
StaticRuleA == RuleBuilder_build(RuleBuilder_variant(RuleBuilder_new, "a", 100)).val

NextValue ==
    \/ \E t \in ValueTypes : FbNew(t)
    \/ \E n \in NameInputs : FbName(n)
    \/ \E k \in {"a", "b"}, v \in ValueInputs : FbVariant(k, v)
    \/ FbDefaultVariant("a")
    \/ FbDefaultRule(StaticRuleA)
    \/ FbBuild
    \/ FeatureDrop

SpecValue == Init /\ [][NextValue]_vars

\* ------------------------------------------------------------------------
\* Features and the terminal operations of DecisionBuilder
\* ------------------------------------------------------------------------

FeaturesFromConfig(c) ==
    /\ featuresRes = None
    /\ featuresCfg' = Some(c)
    /\ featuresRes' = Some(Features_from_config(c))
    /\ built' = None
    /\ UNCHANGED <<decided, decidedAll, nonRegistryVars>>

\* decided, decidedAll and built record the last call made
FeaturesDecide(feature, c) ==
    /\ IsSome(featuresRes)
    /\ Unwrap(featuresRes).ok
    /\ decided' = Some([feature |-> feature, ctx |-> c,
                        decision |-> Features_decide(Unwrap(featuresRes).val, feature, c)])
    /\ decidedAll' = None
    /\ built' = None
    /\ UNCHANGED <<featuresCfg, featuresRes, nonRegistryVars>>

FeaturesDecideAll(c) ==
    /\ IsSome(featuresRes)
    /\ Unwrap(featuresRes).ok
    /\ decidedAll' = Some([ctx |-> c,
                           decisions |-> Features_decide_all(Unwrap(featuresRes).val, c)])
    /\ decided' = None
    /\ built' = None
    /\ UNCHANGED <<featuresCfg, featuresRes, nonRegistryVars>>

\* the registry (or the error) is dropped
FeaturesDrop ==
    /\ IsSome(featuresRes)
    /\ featuresCfg' = None
    /\ featuresRes' = None
    /\ decided' = None
    /\ decidedAll' = None
    /\ built' = None
    /\ UNCHANGED nonRegistryVars

DbDisabled(b) ==
    /\ built' = Some([op |-> "disabled", reason |-> "Disabled",
                      decision |-> DecisionBuilder_disabled(b)])
    /\ decided' = None
    /\ decidedAll' = None
    /\ UNCHANGED <<featuresCfg, featuresRes, nonRegistryVars>>

DbSuccess(b, reason) ==
    /\ built' = Some([op |-> "success", reason |-> reason,
                      decision |-> DecisionBuilder_success(b, reason)])
    /\ decided' = None
    /\ decidedAll' = None
    /\ UNCHANGED <<featuresCfg, featuresRes, nonRegistryVars>>

DbError(b, err) ==
    /\ built' = Some([op |-> "error", reason |-> "Error",
                      decision |-> DecisionBuilder_error(b, err)])
    /\ decided' = None
    /\ decidedAll' = None
    /\ UNCHANGED <<featuresCfg, featuresRes, nonRegistryVars>>

NextRegistry ==
    \/ \E c \in RegistryConfigInputs : FeaturesFromConfig(c)
    \/ \E n \in FeatureNameInputs, c \in ContextInputs : FeaturesDecide(n, c)
    \/ \E c \in ContextInputs : FeaturesDecideAll(c)
    \/ FeaturesDrop

SpecRegistry == Init /\ [][NextRegistry]_vars

\* the registry together with DecisionBuilders used directly
NextDecisions ==
    \/ NextRegistry
    \/ \E b \in DecisionBuilderInputs : DbDisabled(b)
    \/ \E b \in DecisionBuilderInputs, r \in Reasons : DbSuccess(b, r)
    \/ \E b \in DecisionBuilderInputs, e \in ErrorInputs : DbError(b, e)

SpecDecisions == Init /\ [][NextDecisions]_vars

\* ------------------------------------------------------------------------
\* wasi: the exports of the component, called from several threads
\* ------------------------------------------------------------------------

\* a mistaken lock: a writer does not wait for the readers
WriteLockFreeIgnoringReaders == writer = None

\* RwLock::write returns once no thread holds the lock
WriteLockFree == writer = None /\ readers = {}

\* RwLock::read returns once no writer holds the lock
ReadLockFree == writer = None

\* `*write_guard = features` drops the old value and moves the new one in; it
\* is not one atomic store: in between the value holds, for each name, the
\* old entry or the new one
PartlyWritten(old, new) ==
    {[features |->
         [n \in (DOMAIN new.features \cap S) \cup (DOMAIN old.features \ S) |->
             IF n \in S THEN new.features[n] ELSE old.features[n]]] :
        S \in SUBSET (DOMAIN old.features \cup DOMAIN new.features)}

\* a mistaken assignment: the entries of the old value that the new one
\* lacks are kept
AssignMerging(old, new) ==
    [features |->
        [n \in DOMAIN old.features \cup DOMAIN new.features |->
            IF n \in DOMAIN new.features THEN new.features[n] ELSE old.features[n]]]

\* the value held once `*write_guard = features` is done
Assign(old, new) == new

Returned(t, op, args, ret, events) ==
    /\ last' = [last EXCEPT ![t] = Some([op |-> op, args |-> args, ret |-> ret,
                                         events |-> events])]
    /\ pc' = [pc EXCEPT ![t] = "idle"]
    /\ local' = [local EXCEPT ![t] = None]

Goto(t, label, locals) ==
    /\ pc' = [pc EXCEPT ![t] = label]
    /\ local' = [local EXCEPT ![t] = Some(locals)]
    /\ UNCHANGED last

\* init up to get_registry: the new Features is built from the document, or
\* the error is returned
WasiInitBuild(t, config_json) ==
    /\ pc[t] = "idle"
    /\ LET config == serde_json_from_str(config_json)
       IN  IF ~config.ok THEN Returned(t, "init", <<config_json>>, Err(config.val), {})
           ELSE LET features == Features_from_config(config.val)
                IN  IF ~features.ok
                    THEN Returned(t, "init", <<config_json>>,
                                  Err(FetaError_to_string(features.val)), {})
                    ELSE Goto(t, "init_write",
                              [config_json |-> config_json, features |-> features.val])
    /\ UNCHANGED <<registry, writer, readers, nonWasiVars>>

\* registry.write()
WasiInitWrite(t) ==
    /\ pc[t] = "init_write"
    /\ WriteLockFree
    /\ writer' = Some(t)
    /\ pc' = [pc EXCEPT ![t] = "init_assign"]
    /\ UNCHANGED <<registry, readers, local, last, nonWasiVars>>

\* *write_guard = features, begun
WasiInitAssign(t) ==
    /\ pc[t] = "init_assign"
    /\ registry' \in PartlyWritten(registry, Unwrap(local[t]).features)
    /\ pc' = [pc EXCEPT ![t] = "init_assigning"]
    /\ UNCHANGED <<writer, readers, local, last, nonWasiVars>>

\* *write_guard = features, completed
WasiInitAssigned(t) ==
    /\ pc[t] = "init_assigning"
    /\ registry' = Assign(registry, Unwrap(local[t]).features)
    /\ pc' = [pc EXCEPT ![t] = "init_return"]
    /\ UNCHANGED <<writer, readers, local, last, nonWasiVars>>

\* Ok(()) and the drop of the write guard
WasiInitReturn(t) ==
    /\ pc[t] = "init_return"
    /\ writer' = None
    /\ Returned(t, "init", <<Unwrap(local[t]).config_json>>, Ok(""), {})
    /\ UNCHANGED <<registry, readers, nonWasiVars>>

\* decide up to the read lock: the context is parsed, or the error decision
\* is returned, and the read lock is taken
WasiDecideRead(t, feature_key, ctx_json) ==
    /\ pc[t] = "idle"
    /\ LET c == serde_json_from_str(ctx_json)
       IN  IF ~c.ok
           THEN /\ Returned(t, "decide", <<feature_key, ctx_json>>,
                            Decision_from(DecisionBuilder_error(DecisionBuilder_new,
                                                                Request(c.val))),
                            {})
                /\ UNCHANGED readers
           ELSE /\ ReadLockFree
                /\ readers' = readers \cup {t}
                /\ Goto(t, "decide_eval",
                        [feature_key |-> feature_key, ctx_json |-> ctx_json, ctx |-> c.val,
                         snapshot |-> registry])
    /\ UNCHANGED <<registry, writer, nonWasiVars>>

\* read_guard.decide, the tracking event, the conversion and the drop of the
\* read guard
WasiDecideReturn(t) ==
    /\ pc[t] = "decide_eval"
    /\ LET l == Unwrap(local[t])
           d == Features_decide(registry, l.feature_key, l.ctx)
       IN  IF ~IsSome(d)
           THEN /\ pc' = [pc EXCEPT ![t] = "panicked"]
                /\ UNCHANGED <<local, last>>
           ELSE Returned(t, "decide", <<l.feature_key, l.ctx_json>>,
                         Decision_from(Unwrap(d)),
                         {Event_new(l.feature_key, l.ctx.user_key, Unwrap(d))})
    /\ readers' = readers \ {t}
    /\ UNCHANGED <<registry, writer, nonWasiVars>>

\* decide_all up to the read lock
WasiDecideAllRead(t, ctx_json) ==
    /\ pc[t] = "idle"
    /\ LET c == serde_json_from_str(ctx_json)
       IN  IF ~c.ok
           THEN /\ Returned(t, "decide_all", <<ctx_json>>, Err(c.val), {})
                /\ UNCHANGED readers
           ELSE /\ ReadLockFree
                /\ readers' = readers \cup {t}
                /\ Goto(t, "all_eval",
                        [ctx_json |-> ctx_json, ctx |-> c.val, snapshot |-> registry,
                         results |-> EmptyMap])
    /\ UNCHANGED <<registry, writer, nonWasiVars>>

\* one turn of the loop of Features::decide_all, over the HashMap in any order
WasiDecideAllStep(t) ==
    /\ pc[t] = "all_eval"
    /\ LET l == Unwrap(local[t])
       IN  \E name \in DOMAIN registry.features \ DOMAIN l.results :
               LET d == Feature_decide(registry.features[name], l.ctx)
               IN  IF ~IsSome(d)
                   THEN /\ pc' = [pc EXCEPT ![t] = "panicked"]
                        /\ readers' = readers \ {t}
                        /\ UNCHANGED local
                   ELSE /\ local' = [local EXCEPT ![t] =
                               Some([l EXCEPT !.results = MapInsert(l.results, name, Unwrap(d))])]
                        /\ UNCHANGED <<pc, readers>>
    /\ UNCHANGED <<registry, writer, last, nonWasiVars>>

\* the end of the loop, the tracking events, the conversion and the drop of
\* the read guard
WasiDecideAllReturn(t) ==
    /\ pc[t] = "all_eval"
    /\ LET l == Unwrap(local[t])
       IN  /\ DOMAIN registry.features \ DOMAIN l.results = {}
           /\ Returned(t, "decide_all", <<l.ctx_json>>,
                       Ok([name \in DOMAIN l.results |-> Decision_from(l.results[name])]),
                       {Event_new(name, l.ctx.user_key, l.results[name]) :
                           name \in DOMAIN l.results})
    /\ readers' = readers \ {t}
    /\ UNCHANGED <<registry, writer, nonWasiVars>>

\* the exports called from any thread; the host's counts are not kept
NextWasi ==
    \E t \in Threads :
        \/ \E j \in ConfigJsonInputs : WasiInitBuild(t, j) /\ UNCHANGED hostVars
        \/ WasiInitWrite(t) /\ UNCHANGED hostVars
        \/ WasiInitAssign(t) /\ UNCHANGED hostVars
        \/ WasiInitAssigned(t) /\ UNCHANGED hostVars
        \/ WasiInitReturn(t) /\ UNCHANGED hostVars
        \/ \E k \in FeatureKeyInputs, j \in ContextJsonInputs :
               WasiDecideRead(t, k, j) /\ UNCHANGED hostVars
        \/ WasiDecideReturn(t) /\ UNCHANGED hostVars
        \/ \E j \in ContextJsonInputs : WasiDecideAllRead(t, j) /\ UNCHANGED hostVars
        \/ WasiDecideAllStep(t) /\ UNCHANGED hostVars
        \/ WasiDecideAllReturn(t) /\ UNCHANGED hostVars

SpecWasi == Init /\ [][NextWasi]_vars

\* ------------------------------------------------------------------------
\* wasi/src/lib.rs: the exports called one after another by a host that
\* receives the tracking events
\* ------------------------------------------------------------------------

\* the thread of the host's calls
HostThread == "t1"

\* track_event hands the events of the call that returns in this step to the
\* host; the counts start again when the registry is assigned
HostReceives(t) ==
    LET returns == pc'[t] = "idle" /\ IsSome(last'[t])
        n == IF returns THEN Cardinality(Unwrap(last'[t]).events) ELSE 0
        op == IF returns THEN Unwrap(last'[t]).op ELSE ""
    IN  host' =
            CASE pc[t] = "init_assign" -> NoCalls(host.failed, host.initialised)
              [] pc[t] = "init_return" /\ returns -> [host EXCEPT !.initialised = TRUE]
              [] pc[t] = "idle" /\ returns /\ op = "init" -> [host EXCEPT !.failed = TRUE]
              [] pc[t] = "idle" /\ returns /\ op = "decide" ->
                     [host EXCEPT !.received = @ + n]
              [] pc[t] = "idle" /\ returns /\ op = "decide_all" ->
                     [host EXCEPT !.received = @ + n, !.refused = @ + 1]
              [] pc[t] = "decide_eval" /\ returns ->
                     [host EXCEPT !.received = @ + n, !.decides = @ + 1]
              [] pc[t] = "all_eval" /\ returns ->
                     [host EXCEPT !.received = @ + n, !.alls = @ + 1]
              [] OTHER -> host

\* the host goes on calling until it has counted MaxCalls calls
HostCounts == host.decides + host.alls + host.refused < MaxCalls

NextHost ==
    \/ \E j \in ConfigJsonInputs :
           HostCounts /\ WasiInitBuild(HostThread, j) /\ HostReceives(HostThread)
    \/ HostCounts /\ WasiInitWrite(HostThread) /\ HostReceives(HostThread)
    \/ HostCounts /\ WasiInitAssign(HostThread) /\ HostReceives(HostThread)
    \/ HostCounts /\ WasiInitAssigned(HostThread) /\ HostReceives(HostThread)
    \/ HostCounts /\ WasiInitReturn(HostThread) /\ HostReceives(HostThread)
    \/ \E k \in FeatureKeyInputs, j \in ContextJsonInputs :
           HostCounts /\ WasiDecideRead(HostThread, k, j) /\ HostReceives(HostThread)
    \/ HostCounts /\ WasiDecideReturn(HostThread) /\ HostReceives(HostThread)
    \/ \E j \in ContextJsonInputs :
           HostCounts /\ WasiDecideAllRead(HostThread, j) /\ HostReceives(HostThread)
    \/ HostCounts /\ WasiDecideAllStep(HostThread) /\ HostReceives(HostThread)
    \/ HostCounts /\ WasiDecideAllReturn(HostThread) /\ HostReceives(HostThread)

SpecHost == Init /\ [][NextHost]_vars

\* ------------------------------------------------------------------------
\* hash::calculate, and requests to a registry without features
\* ------------------------------------------------------------------------

HashCalculate(feature, user_key) ==
    /\ hashPrev' = hashCur
    /\ hashCur' = Some([feature |-> feature, user_key |-> user_key,
                        hash |-> calculate(feature, user_key)])
    /\ UNCHANGED nonHashVars

\* Features::default()
FeaturesDefault ==
    /\ featuresRes = None
    /\ featuresCfg' = None
    /\ featuresRes' = Some(Ok(Features_default))
    /\ built' = None
    /\ UNCHANGED <<decided, decidedAll, nonRegistryVars>>

NextHash ==
    \/ \E p \in HashPairInputs : HashCalculate(p[1], p[2])
    \/ FeaturesDefault
    \/ \E n \in UnregisteredNameInputs, c \in UnregisteredContextInputs : FeaturesDecide(n, c)
    \/ FeaturesDrop

SpecHash == Init /\ [][NextHash]_vars

\* ------------------------------------------------------------------------
\* config.rs: a configuration document with a Distribution bucketing
\* ------------------------------------------------------------------------

\* BTreeMap<String, u8> deserialized from the members of a JSON object: each
\* member is inserted in document order, the map keeps them by key
RECURSIVE Distribution_from_document(_)
Distribution_from_document(members) ==
    IF members = <<>> THEN EmptyMap
    ELSE LET n == Len(members)
         IN  MapInsert(Distribution_from_document(SubSeq(members, 1, n - 1)),
                       members[n][1], members[n][2])

\* the variants of test_feature_evaluate
SplitVariants ==
    [k \in {"a", "b", "c", "d"} |->
        CASE k = "a" -> Integer("1")
          [] k = "b" -> Integer("2")
          [] k = "c" -> Integer("3")
          [] OTHER -> Integer("4")]

\* config::Feature deserialized from a document whose default rule lists the
\* members of its distribution in the order of doc.members
FeatureConfig_from_document(doc) ==
    [enabled |-> doc.enabled, value_type |-> "Integer", variants |-> SplitVariants,
     default_variant |-> "a",
     audience_rules |-> <<AudienceRuleConfig("beta", "beta", BucketingVariant("d"))>>,
     default_rule |->
         [bucketing |-> BucketingDistribution(Distribution_from_document(doc.members))]]

\* percentages of a, b and c in the default rule
PercentageInputs ==
    {<<34, 33, 33>>, <<33, 34, 33>>, <<33, 33, 34>>, <<50, 25, 25>>,
     <<0, 50, 50>>, <<100, 0, 0>>, <<34, 33, 30>>}

\* the orders in which a document can list the three members
MemberOrders ==
    {o \in [1..3 -> {"a", "b", "c"}] : \A i, j \in 1..3 : o[i] = o[j] => i = j}

PercentageOf(p, variant) ==
    CASE variant = "a" -> p[1] [] variant = "b" -> p[2] [] OTHER -> p[3]

DocumentInputs ==
    {[enabled |-> e, members |-> [i \in 1..3 |-> <<o[i], PercentageOf(p, o[i])>>]] :
        e \in BOOLEAN, p \in PercentageInputs, o \in MemberOrders}

SplitContextInputs ==
    [user_key : {"g", "a", "b", "c", "d"},
     attributes : {None, Some([k \in {"beta"} |-> Boolean("true")])}]

\* the document is deserialized and handed to Feature::from_config
FromDocument(name, doc) == FromConfig(name, FeatureConfig_from_document(doc))

NextSplit ==
    \/ \E d \in DocumentInputs : FromDocument("exp", d)
    \/ \E c \in SplitContextInputs : Decide(c)
    \/ FeatureDrop

SpecSplit == Init /\ [][NextSplit]_vars

\* ------------------------------------------------------------------------
\* Vocabulary of the properties
\* ------------------------------------------------------------------------

RuleBuilt == IsSome(ruleRes) /\ Unwrap(ruleRes).ok

TheRule == Unwrap(ruleRes).val

RECURSIVE SumOfPercentages(_)
SumOfPercentages(pairs) ==
    IF pairs = <<>> THEN 0 ELSE pairs[1][2] + SumOfPercentages(Tail(pairs))

FeatureBuilt == IsSome(featRes) /\ Unwrap(featRes).ok

TheFeature == Unwrap(featRes).val

\* Feature::decide was called on the built Feature
Decided == FeatureBuilt /\ IsSome(decideCtx)

\* FeatureBuilder::build was called (rather than Feature::from_config)
BuilderBuilt == IsSome(featRes) /\ IsSome(fb) /\ featureCfg = None

\* what evaluating the rule's expression gives: "none" (no expression),
\* "true", "false" (any other value) or "error" (runtime failure)
ExpressionOutcome(rule, env) ==
    IF ~IsSome(rule.program) THEN "none"
    ELSE LET r == mexl_run(Unwrap(rule.program), env)
         IN  IF ~r.ok THEN "error"
             ELSE IF r.val.tag = "Boolean" /\ r.val.v = "true" THEN "true"
             ELSE "false"

\* the rules (at most one) that are reached with every earlier rule
\* evaluated to "not applicable", and that have the given outcomes
FirstWithOutcome(f, env, outcomes) ==
    {i \in 1..Len(f.rules) :
        /\ ExpressionOutcome(f.rules[i], env) \in outcomes
        /\ \A j \in 1..(i - 1) : ExpressionOutcome(f.rules[j], env) = "false"}

\* ------------------------------------------------------------------------
\* Properties
\* ------------------------------------------------------------------------

\* C1: deciding on a successfully built Feature (by the builder or from a
\* configuration) never panics, never returns reason Unknown and never
\* returns a Configuration error.
C1_DecideNeverStructuralFailure ==
    Decided =>
        /\ ~panicked
        /\ IsSome(decision)
        /\ Unwrap(decision).reason # "Unknown"
        /\ IsSome(Unwrap(decision).error) =>
               Unwrap(Unwrap(decision).error).kind # "Configuration"

\* an enabled Feature with two audience rules decided by its default rule
C1_Witness ==
    /\ Decided
    /\ TheFeature.enabled
    /\ Len(TheFeature.rules) = 3
    /\ IsSome(decision)
    /\ Unwrap(decision).reason = "Split"

\* C2: RuleBuilder::build passes the bucket validation exactly when at least
\* one pair was added and the percentages sum to 100; otherwise it returns
\* Configuration("invalid variant configuration") and no Rule.
C2_BuildValidatesPercentages ==
    IsSome(ruleRes) =>
        LET r == Unwrap(ruleRes)
            valid == Len(rb.percentages) >= 1 /\ SumOfPercentages(rb.percentages) = 100
        IN  IF valid
            THEN r.ok \/ r.val # Configuration("invalid variant configuration")
            ELSE ~r.ok /\ r.val = Configuration("invalid variant configuration")

\* a build rejected because the percentages sum to 110
C2_Witness ==
    /\ IsSome(ruleRes)
    /\ ~Unwrap(ruleRes).ok
    /\ Len(rb.percentages) = 2
    /\ SumOfPercentages(rb.percentages) = 110

\* C3: the buckets of a built Rule are in the order of the pairs, start at 0,
\* are contiguous, have their percentage as width, do not overlap and end at
\* exactly 100.
C3_BucketsPartition ==
    RuleBuilt =>
        LET bs == TheRule.buckets
            n == Len(bs)
        IN  /\ n = Len(rb.percentages)
            /\ \A i \in 1..n : bs[i].variant = rb.percentages[i][1]
            /\ bs[1].lower_bound = 0
            /\ \A i \in 2..n : bs[i].lower_bound = bs[i - 1].upper_bound
            /\ \A i \in 1..n : bs[i].upper_bound - bs[i].lower_bound = rb.percentages[i][2]
            /\ \A i \in 1..n : \A j \in 1..n :
                   i # j => ~\E x \in 0..99 :
                       /\ bs[i].lower_bound <= x /\ x < bs[i].upper_bound
                       /\ bs[j].lower_bound <= x /\ x < bs[j].upper_bound
            /\ bs[n].upper_bound = 100

\* a built Rule with three buckets
C3_Witness ==
    /\ RuleBuilt
    /\ Len(TheRule.buckets) = 3
    /\ TheRule.buckets[2].lower_bound > 0
    /\ TheRule.buckets[3].lower_bound > TheRule.buckets[2].lower_bound

\* C4: get_variant on a built Rule always finds a bucket and returns the
\* variant of the one bucket whose interval holds hash % 100; it agrees with
\* get_variant(hash % 100), and for a:50, b:50 residues below 50 give "a",
\* the others "b".
C4_GetVariantSelectsUniqueBucket ==
    IsSome(lookup) =>
        LET h == Unwrap(lookup).hash
            x == Mod100(h)
            bs == TheRule.buckets
            holding == {i \in 1..Len(bs) : bs[i].lower_bound <= x /\ x < bs[i].upper_bound}
        IN  /\ IsSome(Unwrap(lookup).variant)
            /\ Cardinality(holding) = 1
            /\ \A i \in holding : Unwrap(Unwrap(lookup).variant) = bs[i].variant
            /\ Rule_get_variant(TheRule, U32(0, x)) = Unwrap(lookup).variant
            /\ rb.percentages = <<(<<"a", 50>>), (<<"b", 50>>)>> =>
                   Unwrap(Unwrap(lookup).variant) = (IF x < 50 THEN "a" ELSE "b")

\* hash 100 looked up in a:50, b:50 gives "a"
C4_Witness ==
    /\ IsSome(lookup)
    /\ rb.percentages = <<(<<"a", 50>>), (<<"b", 50>>)>>
    /\ Unwrap(lookup).hash = U32(0, 100)
    /\ Unwrap(lookup).variant = Some("a")

\* C5: the rules of a Feature are the audience rules in the order added, then
\* the default rule; an enabled Feature's decision comes from the first rule
\* that is applicable: its variant for the hash, that variant's value, the
\* rule's reason and audience, no error. Later rules are not evaluated.
C5_FirstApplicableRuleDecides ==
    /\ (BuilderBuilt /\ FeatureBuilt) =>
           TheFeature.rules = Unwrap(fb).rules \o <<Unwrap(Unwrap(fb).default_rule)>>
    /\ (Decided /\ TheFeature.enabled) =>
           \A i \in FirstWithOutcome(TheFeature, EnvOf(Unwrap(decideCtx)), {"none", "true"}) :
               LET rule == TheFeature.rules[i]
                   hash == calculate(TheFeature.name, Unwrap(decideCtx).user_key)
                   variant == Rule_get_variant(rule, hash)
               IN  /\ IsSome(variant)
                   /\ Unwrap(variant) \in DOMAIN TheFeature.variants
                   /\ decision = Some([hash |-> hash,
                                       variant |-> Unwrap(variant),
                                       reason |-> rule.reason,
                                       value |-> TheFeature.variants[Unwrap(variant)],
                                       audience |-> rule.audience,
                                       error |-> None])

\* the first of three rules matched although the second one's expression
\* fails at run time
C5_Witness ==
    /\ Decided
    /\ TheFeature.enabled
    /\ Len(TheFeature.rules) = 3
    /\ FirstWithOutcome(TheFeature, EnvOf(Unwrap(decideCtx)), {"none", "true"}) = {1}
    /\ ExpressionOutcome(TheFeature.rules[2], EnvOf(Unwrap(decideCtx))) = "error"
    /\ IsSome(decision)
    /\ Unwrap(decision).reason = "Match"
    /\ Unwrap(decision).audience = Some("beta")

\* C6: a disabled Feature's decision is Disabled with the default variant and
\* value, the hash of (name, user key), no audience and no error, whatever
\* the context and whatever its rules' expressions would give.
C6_DisabledDecision ==
    (Decided /\ ~TheFeature.enabled) =>
        decision = Some([hash |-> calculate(TheFeature.name, Unwrap(decideCtx).user_key),
                         variant |-> TheFeature.default_variant,
                         reason |-> "Disabled",
                         value |-> TheFeature.variants[TheFeature.default_variant],
                         audience |-> None,
                         error |-> None])

\* a disabled Feature decided for a context in which its first rule's
\* expression fails at run time
C6_Witness ==
    /\ Decided
    /\ ~TheFeature.enabled
    /\ ExpressionOutcome(TheFeature.rules[1], EnvOf(Unwrap(decideCtx))) = "error"
    /\ IsSome(Unwrap(decideCtx).attributes)
    /\ IsSome(decision)
    /\ Unwrap(decision).reason = "Disabled"

\* C7: when a rule's expression fails at run time before any rule was
\* applicable, the decision is an Error with a Targeting error, the default
\* variant and value, the hash and no audience; no later rule is tried.
C7_TargetingErrorAborts ==
    (Decided /\ TheFeature.enabled) =>
        \A i \in FirstWithOutcome(TheFeature, EnvOf(Unwrap(decideCtx)), {"error"}) :
            /\ IsSome(decision)
            /\ Unwrap(decision).reason = "Error"
            /\ IsSome(Unwrap(decision).error)
            /\ Unwrap(Unwrap(decision).error).kind = "Targeting"
            /\ Unwrap(decision).variant = TheFeature.default_variant
            /\ Unwrap(decision).value = TheFeature.default_value
            /\ Unwrap(decision).value = TheFeature.variants[TheFeature.default_variant]
            /\ Unwrap(decision).hash = calculate(TheFeature.name, Unwrap(decideCtx).user_key)
            /\ Unwrap(decision).audience = None

\* the second of three rules failed after the first did not match
C7_Witness ==
    /\ Decided
    /\ TheFeature.enabled
    /\ Len(TheFeature.rules) = 3
    /\ FirstWithOutcome(TheFeature, EnvOf(Unwrap(decideCtx)), {"error"}) = {2}
    /\ IsSome(decision)
    /\ Unwrap(decision).reason = "Error"

\* the conditions under which FeatureBuilder::build is claimed to succeed
BuildConditions(b) ==
    /\ IsSome(b.name)
    /\ \A k \in DOMAIN b.variants : b.variants[k].tag = b.value_type
    /\ IsSome(b.default_variant)
    /\ Unwrap(b.default_variant) \in DOMAIN b.variants
    /\ IsSome(b.default_rule)
    /\ ~IsSome(Unwrap(b.default_rule).program)
    /\ \A i \in 1..Len(b.rules) : \A j \in 1..Len(b.rules[i].buckets) :
           b.rules[i].buckets[j].variant \in DOMAIN b.variants
    /\ \A j \in 1..Len(Unwrap(b.default_rule).buckets) :
           Unwrap(b.default_rule).buckets[j].variant \in DOMAIN b.variants

\* C8: FeatureBuilder::build returns Ok exactly when a name was set, every
\* variant value has the declared type, the default variant is set and
\* defined, the default rule is set and has no expression, and every variant
\* named by a rule is defined; otherwise it returns a Configuration error.
C8_BuildOkIffValid ==
    BuilderBuilt =>
        /\ Unwrap(featRes).ok <=> BuildConditions(Unwrap(fb))
        /\ ~Unwrap(featRes).ok => Unwrap(featRes).val.kind = "Configuration"

\* a build that fails only because a variant has another type than declared
C8_Witness ==
    /\ BuilderBuilt
    /\ ~Unwrap(featRes).ok
    /\ Unwrap(featRes).val = Configuration("all variants must have type")
    /\ IsSome(Unwrap(fb).name)
    /\ Unwrap(fb).default_variant = Some("a")
    /\ IsSome(Unwrap(fb).default_rule)
    /\ ~IsSome(Unwrap(Unwrap(fb).default_rule).program)
    /\ Len(Unwrap(fb).rules) = 1

RulesWithoutExpression == {i \in 1..Len(TheFeature.rules) : ~IsSome(TheFeature.rules[i].program)}

\* C10 as stated: in every constructed Feature exactly one rule carries no
\* compiled expression, and it is the last one.
C10_ExactlyOneRuleWithoutExpression ==
    FeatureBuilt => RulesWithoutExpression = {Len(TheFeature.rules)}

\* C10 as amended: in every constructed Feature the last rule is the default
\* rule and carries no compiled expression; it is the only such rule when the
\* Feature was built from a configuration or when every Rule given to
\* audience_rule was built with an audience clause.
C10_LastRuleIsDefaultRule ==
    FeatureBuilt =>
        /\ Len(TheFeature.rules) >= 1
        /\ Len(TheFeature.rules) \in RulesWithoutExpression
        /\ BuilderBuilt =>
               /\ TheFeature.rules[Len(TheFeature.rules)] = Unwrap(Unwrap(fb).default_rule)
               /\ (\A i \in 1..Len(Unwrap(fb).rules) : IsSome(Unwrap(fb).rules[i].audience))
                      => RulesWithoutExpression = {Len(TheFeature.rules)}
        /\ IsSome(featureCfg) => RulesWithoutExpression = {Len(TheFeature.rules)}

\* a Feature built with two audience rules that carry expressions
C10_Witness ==
    /\ FeatureBuilt
    /\ BuilderBuilt
    /\ Len(TheFeature.rules) = 3
    /\ RulesWithoutExpression = {3}

\* C11: Null has none of the four ValueTypes, has_type is an exact tag match
\* (an Integer is not a Float), and a FeatureBuilder holding a Null variant
\* fails to build with a Configuration error whatever the declared type.
C11_NullVariantRejected ==
    /\ \A t \in ValueTypes : ~has_type(Null, t)
    /\ ~has_type(Integer("1"), "Float")
    /\ BuilderBuilt =>
           LET b == Unwrap(fb)
           IN  /\ \A k \in DOMAIN b.variants : \A t \in ValueTypes :
                      has_type(b.variants[k], t) <=> b.variants[k].tag = t
               /\ (\E k \in DOMAIN b.variants : b.variants[k] = Null) =>
                      /\ ~Unwrap(featRes).ok
                      /\ Unwrap(featRes).val.kind = "Configuration"

\* a Float builder, valid but for variant "b" being Null, was rejected
C11_Witness ==
    /\ BuilderBuilt
    /\ Unwrap(fb).value_type = "Float"
    /\ DOMAIN Unwrap(fb).variants = {"a", "b"}
    /\ Unwrap(fb).variants["a"] = Float("1.5")
    /\ Unwrap(fb).variants["b"] = Null
    /\ IsSome(Unwrap(fb).name)
    /\ IsSome(Unwrap(fb).default_variant)
    /\ IsSome(Unwrap(fb).default_rule)
    /\ ~Unwrap(featRes).ok
    /\ Unwrap(featRes).val = Configuration("all variants must have type")

\* C12: the reason stored on a built Rule is Static (1 bucket, no audience),
\* Split (more buckets, no audience), Match (1 bucket, audience) or
\* MatchSplit (more buckets, audience), never Unknown, Disabled or Error; the
\* audience name and the compiled program are both present or both absent.
C12_ReasonClassification ==
    RuleBuilt =>
        LET n == Len(rb.percentages)
            aud == IsSome(rb.audience)
        IN  /\ TheRule.reason =
                   (IF aud THEN (IF n = 1 THEN "Match" ELSE "MatchSplit")
                    ELSE (IF n = 1 THEN "Static" ELSE "Split"))
            /\ TheRule.reason \notin {"Unknown", "Disabled", "Error"}
            /\ IsSome(TheRule.audience) <=> IsSome(TheRule.program)
            /\ IsSome(TheRule.audience) <=> aud

\* a built Rule with three buckets and an audience, classified MatchSplit
C12_Witness ==
    /\ RuleBuilt
    /\ Len(TheRule.buckets) = 3
    /\ TheRule.audience = Some("beta")
    /\ TheRule.program = Some("beta")
    /\ TheRule.reason = "MatchSplit"

\* C17: is_applicable is Ok(true) for a rule without expression; with one it
\* is Ok(true) only when the expression gives the boolean true, Ok(false) for
\* every other value (false, null, non-boolean values), and a Targeting error
\* exactly when the evaluation fails.
C17_ApplicableOnlyOnBooleanTrue ==
    IsSome(applied) =>
        LET res == Unwrap(applied).result
            env == Unwrap(applied).env
        IN  IF ~IsSome(TheRule.program) THEN res.ok /\ res.val
            ELSE LET run == mexl_run(Unwrap(TheRule.program), env)
                 IN  IF ~run.ok THEN ~res.ok /\ res.val.kind = "Targeting"
                     ELSE /\ res.ok
                          /\ res.val <=> (run.val.tag = "Boolean" /\ run.val.v = "true")

\* the expression "beta" gave the integer 1 and the rule was not applicable
C17_Witness ==
    /\ IsSome(applied)
    /\ TheRule.program = Some("beta")
    /\ "beta" \in DOMAIN Unwrap(applied).env
    /\ Unwrap(applied).env["beta"] = Integer("1")
    /\ Unwrap(applied).result.ok
    /\ ~Unwrap(applied).result.val

\* ------------------------------------------------------------------------
\* Vocabulary of the registry properties
\* ------------------------------------------------------------------------

RegistryBuilt == IsSome(featuresRes) /\ Unwrap(featuresRes).ok

TheRegistry == Unwrap(featuresRes).val

\* the positions in FeatureOrder of the configured features that fail to build
FailingFeatures ==
    LET c == Unwrap(featuresCfg).features
    IN  {i \in 1..Len(FeatureOrder) :
            /\ FeatureOrder[i] \in DOMAIN c
            /\ ~Feature_from_config(FeatureOrder[i], c[FeatureOrder[i]]).ok}

ErrorMatchesReason(d) == IsSome(d.error) <=> d.reason = "Error"

\* C13: a registered Feature is named by its registry key, and every Decision
\* of Features::decide and Features::decide_all (so of Feature::decide, for
\* each outcome) carries hash(name, user_key), registered name or not.
C13_HashOfNameAndUserKey ==
    /\ RegistryBuilt =>
           \A n \in DOMAIN TheRegistry.features : TheRegistry.features[n].name = n
    /\ IsSome(decided) =>
           LET call == Unwrap(decided)
           IN  /\ IsSome(call.decision)
               /\ Unwrap(call.decision).hash = calculate(call.feature, call.ctx.user_key)
    /\ IsSome(decidedAll) =>
           LET call == Unwrap(decidedAll)
           IN  /\ IsSome(call.decisions)
               /\ \A n \in DOMAIN Unwrap(call.decisions) :
                      Unwrap(call.decisions)[n].hash = calculate(n, call.ctx.user_key)

\* one batch with a Disabled, an Error and a successful decision
C13_Witness ==
    /\ IsSome(decidedAll)
    /\ IsSome(Unwrap(decidedAll).decisions)
    /\ LET ds == Unwrap(Unwrap(decidedAll).decisions)
       IN  /\ \E n \in DOMAIN ds : ds[n].reason = "Disabled"
           /\ \E n \in DOMAIN ds : ds[n].reason = "Error"
           /\ \E n \in DOMAIN ds : ds[n].reason \in {"Split", "Match"}

\* C14: Features::decide of a name that is not registered returns reason
\* Error, value Null, the empty variant, no audience, the error
\* Request("invalid feature: <name>") and hash(name, user_key).
C14_UnregisteredFeature ==
    (IsSome(decided) /\ Unwrap(decided).feature \notin DOMAIN TheRegistry.features) =>
        LET call == Unwrap(decided)
        IN  call.decision =
                Some([hash |-> calculate(call.feature, call.ctx.user_key),
                      variant |-> "",
                      reason |-> "Error",
                      value |-> Null,
                      audience |-> None,
                      error |-> Some([kind |-> "Request",
                                      msg |-> "invalid feature: " \o call.feature])])

\* "f2" is requested from a registry that holds "exp" and "f1"
C14_Witness ==
    /\ IsSome(decided)
    /\ DOMAIN TheRegistry.features = {"exp", "f1"}
    /\ Unwrap(decided).feature = "f2"
    /\ IsSome(Unwrap(decided).decision)
    /\ Unwrap(Unwrap(decided).decision).error = Some(Request("invalid feature: f2"))
    /\ Unwrap(Unwrap(decided).decision).hash # U32(0, 0)

\* C15: Features::decide_all returns one entry per registered name, equal to
\* Features::decide of that name, so to Feature::decide of that feature alone;
\* an Error decision of one feature neither ends the batch nor alters the rest.
C15_DecideAllIsDecideEach ==
    IsSome(decidedAll) =>
        LET call == Unwrap(decidedAll)
        IN  /\ IsSome(call.decisions)
            /\ DOMAIN Unwrap(call.decisions) = DOMAIN TheRegistry.features
            /\ \A n \in DOMAIN TheRegistry.features :
                   /\ Some(Unwrap(call.decisions)[n]) = Features_decide(TheRegistry, n, call.ctx)
                   /\ Some(Unwrap(call.decisions)[n]) =
                          Feature_decide(TheRegistry.features[n], call.ctx)

\* three features, "exp" ends in a Targeting error, the two others are decided
C15_Witness ==
    /\ IsSome(decidedAll)
    /\ IsSome(Unwrap(decidedAll).decisions)
    /\ LET ds == Unwrap(Unwrap(decidedAll).decisions)
       IN  /\ DOMAIN ds = {"exp", "f1", "f2"}
           /\ ds["exp"].reason = "Error"
           /\ ds["f1"].reason = "Match"
           /\ ds["f2"].reason = "Disabled"

\* C16: Features::from_config returns Ok exactly when every configured
\* feature builds, and then holds exactly the configured names; otherwise it
\* returns the error of the first failing feature in name order, and no
\* registry.
C16_FromConfigAllOrNothing ==
    IsSome(featuresRes) =>
        LET c == Unwrap(featuresCfg).features
            res == Unwrap(featuresRes)
        IN  IF FailingFeatures = {}
            THEN res.ok /\ DOMAIN res.val.features = DOMAIN c
            ELSE LET first == CHOOSE i \in FailingFeatures : \A j \in FailingFeatures : i <= j
                     name == FeatureOrder[first]
                 IN  /\ ~res.ok
                     /\ res.val = Feature_from_config(name, c[name]).val

\* "exp" builds, "f1" and "f2" fail with different errors: the error is f1's
C16_Witness ==
    /\ IsSome(featuresRes)
    /\ ~Unwrap(featuresRes).ok
    /\ LET c == Unwrap(featuresCfg).features
       IN  /\ DOMAIN c = {"exp", "f1", "f2"}
           /\ FailingFeatures = {2, 3}
           /\ Feature_from_config("f1", c["f1"]).val # Feature_from_config("f2", c["f2"]).val
           /\ Unwrap(featuresRes).val = Feature_from_config("f1", c["f1"]).val

\* C19: a Decision of Features::decide, of Features::decide_all (so of
\* Feature::decide) or of a terminal operation of DecisionBuilder other than
\* success(Error) has an error exactly when its reason is Error, and the
\* decide calls return a Decision, they do not panic.
C19_ErrorIffReasonError ==
    /\ IsSome(decided) =>
           /\ IsSome(Unwrap(decided).decision)
           /\ ErrorMatchesReason(Unwrap(Unwrap(decided).decision))
    /\ IsSome(decidedAll) =>
           /\ IsSome(Unwrap(decidedAll).decisions)
           /\ \A n \in DOMAIN Unwrap(Unwrap(decidedAll).decisions) :
                  ErrorMatchesReason(Unwrap(Unwrap(decidedAll).decisions)[n])
    /\ (IsSome(built) /\ ~(Unwrap(built).op = "success" /\ Unwrap(built).reason = "Error")) =>
           ErrorMatchesReason(Unwrap(built).decision)

\* a registered feature whose audience expression failed: reason Error with
\* the Targeting error
C19_Witness ==
    /\ IsSome(decided)
    /\ Unwrap(decided).feature \in DOMAIN TheRegistry.features
    /\ IsSome(Unwrap(decided).decision)
    /\ Unwrap(Unwrap(decided).decision).reason = "Error"
    /\ IsSome(Unwrap(Unwrap(decided).decision).error)
    /\ Unwrap(Unwrap(Unwrap(decided).decision).error).kind = "Targeting"

\* C18: for an enabled Feature whose rules are one audience rule with the
\* expression "beta" and the default rule, a context with beta = true is
\* decided by the audience rule (Match or MatchSplit, audience set); a context
\* without attributes, without beta, or with beta = false is decided by the
\* default rule (Static or Split, no audience, no error).
C18_BetaAudienceOrDefault ==
    (/\ Decided
     /\ TheFeature.enabled
     /\ Len(TheFeature.rules) = 2
     /\ TheFeature.rules[1].program = Some("beta")
     /\ TheFeature.rules[2].program = None) =>
        /\ IsSome(decision)
        /\ LET d == Unwrap(decision)
               attributes == Unwrap(decideCtx).attributes
               beta == IF IsSome(attributes) /\ "beta" \in DOMAIN Unwrap(attributes)
                       THEN Some(Unwrap(attributes)["beta"])
                       ELSE None
           IN  /\ beta = Some(Boolean("true")) =>
                      /\ d.reason \in {"Match", "MatchSplit"}
                      /\ d.reason = TheFeature.rules[1].reason
                      /\ IsSome(d.audience)
                      /\ d.audience = TheFeature.rules[1].audience
               /\ beta \in {None, Some(Boolean("false"))} =>
                      /\ d.reason \in {"Static", "Split"}
                      /\ d.reason = TheFeature.rules[2].reason
                      /\ d.audience = None
                      /\ d.error = None

\* beta = true decided by the audience rule "beta" although the default rule
\* is a split
C18_Witness ==
    /\ Decided
    /\ TheFeature.enabled
    /\ Len(TheFeature.rules) = 2
    /\ TheFeature.rules[1].program = Some("beta")
    /\ TheFeature.rules[2].reason = "Split"
    /\ Unwrap(decideCtx).attributes = Some([k \in {"beta"} |-> Boolean("true")])
    /\ IsSome(decision)
    /\ Unwrap(decision).reason = "Match"
    /\ Unwrap(decision).audience = Some("beta")

\* ------------------------------------------------------------------------
\* Vocabulary of the wasi properties
\* ------------------------------------------------------------------------

\* Features::from_config of each configuration document that parses
\* (@@ makes the table an explicit function, computed once)
BuiltFrom ==
    [j \in {x \in ConfigJsonInputs : IsSome(x)} |-> Features_from_config(Unwrap(j))] @@ <<>>

\* the empty default and the registries of the configurations that validate
WholeRegistries ==
    {Features_default} \cup {BuiltFrom[j].val : j \in {x \in DOMAIN BuiltFrom : BuiltFrom[x].ok}}

InitHoldsFeatures(t) == pc[t] \in {"init_write", "init_assign", "init_assigning", "init_return"}

InitHoldsWriteLock(t) == pc[t] \in {"init_assign", "init_assigning", "init_return"}

\* C20: while a thread holds the read lock the registry is the whole registry
\* it found when it took the lock; the decisions a decide_all has collected,
\* and those it returns, all come from one whole registry; init has built its
\* complete Features before it asks for the write lock and writes only while
\* it holds the lock alone; whenever no init holds the write lock the
\* registry is the empty default or the one built from one valid
\* configuration.
C20_ReadersSeeOneWholeRegistry ==
    /\ \A t \in readers :
           /\ registry = Unwrap(local[t]).snapshot
           /\ registry \in WholeRegistries
    /\ \A t \in Threads :
           pc[t] = "all_eval" =>
               LET l == Unwrap(local[t])
               IN  /\ DOMAIN l.results \subseteq DOMAIN l.snapshot.features
                   /\ \A n \in DOMAIN l.results :
                          Some(l.results[n]) = Feature_decide(l.snapshot.features[n], l.ctx)
    /\ \A t \in Threads :
           (/\ IsSome(last[t])
            /\ Unwrap(last[t]).op = "decide_all"
            /\ Unwrap(last[t]).ret.ok) =>
               \E r \in WholeRegistries :
                   /\ DOMAIN Unwrap(last[t]).ret.val = DOMAIN r.features
                   /\ \A n \in DOMAIN r.features :
                          Some(Unwrap(last[t]).ret.val[n]) =
                              LET d == Feature_decide(r.features[n],
                                                      Unwrap(Unwrap(last[t]).args[1]))
                              IN  IF IsSome(d) THEN Some(Decision_from(Unwrap(d))) ELSE None
    /\ \A t \in Threads :
           InitHoldsFeatures(t) =>
               /\ Unwrap(local[t]).features \in WholeRegistries
               /\ Unwrap(local[t]).features = BuiltFrom[Unwrap(local[t]).config_json].val
    /\ \A t \in Threads :
           InitHoldsWriteLock(t) => (writer = Some(t) /\ readers = {})
    /\ (\A t \in Threads : ~InitHoldsWriteLock(t)) =>
           (writer = None /\ registry \in WholeRegistries)

\* a decide_all has decided one of two features of a registry set by an
\* earlier init while another thread's init, with a different registry
\* built, waits for the write lock
C20_Witness ==
    \E t \in Threads, u \in Threads :
        /\ pc[t] = "all_eval"
        /\ t \in readers
        /\ DOMAIN registry.features = {"exp", "f1"}
        /\ Cardinality(DOMAIN Unwrap(local[t]).results) = 1
        /\ pc[u] = "init_write"
        /\ Unwrap(local[u]).features # registry

\* the parseable context documents
ParsedContexts == {Unwrap(j) : j \in {x \in ContextJsonInputs : IsSome(x)}}

\* what decide and decide_all of the core return on a registry, for every
\* feature key and context
Answers(r) ==
    [one |-> [p \in FeatureKeyInputs \X ParsedContexts |-> Features_decide(r, p[1], p[2])],
     all |-> [c \in ParsedContexts |-> Features_decide_all(r, c)]]

\* thread t returns from a failed init in this step
InitFails(t) ==
    /\ pc[t] = "idle"
    /\ pc'[t] = "idle"
    /\ last'[t] # last[t]
    /\ Unwrap(last'[t]).op = "init"

\* thread t returns from a successful init in this step
InitSucceeds(t) == pc[t] = "init_return" /\ pc'[t] = "idle"

\* C21: init returns Err exactly when the document does not parse or a
\* feature fails validation; the step in which it returns Err leaves the
\* registry, and so every answer of decide and decide_all, as it was; the
\* step in which it returns Ok leaves the registry built from its document
\* alone, so a feature key that document lacks is unknown.
C21_FailedInitKeepsRegistry ==
    [][\A t \in Threads :
           /\ (IsSome(last'[t]) /\ Unwrap(last'[t]).op = "init") =>
                  LET json == Unwrap(last'[t]).args[1]
                  IN  Unwrap(last'[t]).ret.ok <=> (IsSome(json) /\ BuiltFrom[json].ok)
           /\ InitFails(t) =>
                  /\ ~Unwrap(last'[t]).ret.ok
                  /\ registry' = registry
                  /\ Answers(registry') = Answers(registry)
           /\ InitSucceeds(t) =>
                  LET json == Unwrap(last'[t]).args[1]
                  IN  /\ Unwrap(last'[t]).ret.ok
                      /\ registry' = BuiltFrom[json].val
                      /\ DOMAIN registry'.features = DOMAIN Unwrap(json).features
                      /\ \A k \in FeatureKeyInputs \ DOMAIN Unwrap(json).features :
                             \A c \in ParsedContexts :
                                 Unwrap(Features_decide(registry', k, c)).error =
                                     Some(Request("invalid feature: " \o k))
    ]_vars

\* an init that failed validation has returned while the registry still
\* holds the two features of an earlier init
C21_Witness ==
    \E t \in Threads :
        /\ IsSome(last[t])
        /\ Unwrap(last[t]).op = "init"
        /\ IsSome(Unwrap(last[t]).args[1])
        /\ ~Unwrap(last[t]).ret.ok
        /\ writer = None
        /\ DOMAIN registry.features = {"exp", "f1"}

\* the bytes hashed for a call of hash::calculate
Concatenation(call) == Bytes(call.feature) \o Bytes(call.user_key)

\* C22: the hash is the Murmur3-32 hash (seed 0) of feature || user_key, so
\* two calls with equal concatenations, and two calls with the same
\* arguments, return the same hash.
C22_HashOfConcatenation ==
    /\ IsSome(hashCur) =>
           Unwrap(hashCur).hash = murmur3_32(Concatenation(Unwrap(hashCur)), U32(0, 0))
    /\ (IsSome(hashPrev) /\ IsSome(hashCur)) =>
           (Concatenation(Unwrap(hashPrev)) = Concatenation(Unwrap(hashCur)) =>
                Unwrap(hashPrev).hash = Unwrap(hashCur).hash)

\* ("ab", "c") and then ("a", "bc") were hashed, with the same result
C22_Witness ==
    /\ hashPrev = Some([feature |-> "ab", user_key |-> "c", hash |-> calculate("ab", "c")])
    /\ IsSome(hashCur)
    /\ Unwrap(hashCur).feature = "a"
    /\ Unwrap(hashCur).user_key = "bc"
    /\ Unwrap(hashCur).hash = Unwrap(hashPrev).hash

\* Features::decide was last called with a name the registry does not hold
DecidedUnregistered ==
    /\ IsSome(decided)
    /\ Unwrap(decided).feature \notin DOMAIN TheRegistry.features
    /\ IsSome(Unwrap(decided).decision)

\* C23 as stated: the hash of a Decision for an unregistered name is never
\* zero, whatever the name and the user key. Violated by the empty name
\* with the empty user key.
C23_UnregisteredHashNonZero ==
    DecidedUnregistered => Unwrap(Unwrap(decided).decision).hash # U32(0, 0)

\* C23: the hash of a Decision for an unregistered name is the Murmur3-32
\* hash (seed 0) of name || user_key: 2826348013 for "exp" and "g", and 0
\* for the empty name with the empty user key.
C23_UnregisteredHashIsMurmur ==
    DecidedUnregistered =>
        LET call == Unwrap(decided)
            hash == Unwrap(call.decision).hash
        IN  /\ hash = murmur3_32(Bytes(call.feature) \o Bytes(call.ctx.user_key), U32(0, 0))
            /\ (call.feature = "exp" /\ call.ctx.user_key = "g") => hash = U32(43126, 42477)
            /\ (call.feature = "" /\ call.ctx.user_key = "") => hash = U32(0, 0)

\* the empty name was requested with the empty user key: the hash is 0
C23_Witness ==
    /\ DecidedUnregistered
    /\ Unwrap(decided).feature = ""
    /\ Unwrap(decided).ctx.user_key = ""
    /\ Unwrap(Unwrap(decided).decision).reason = "Error"
    /\ Unwrap(Unwrap(decided).decision).hash = U32(0, 0)

\* the feature of test_feature_evaluate: enabled "exp" with integer variants
\* a=1, b=2, c=3 and the default rule split a:34, b:33, c:33
TheExperiment ==
    /\ FeatureBuilt
    /\ TheFeature.name = "exp"
    /\ TheFeature.enabled
    /\ {"a", "b", "c"} \subseteq DOMAIN TheFeature.variants
    /\ TheFeature.variants["a"] = Integer("1")
    /\ TheFeature.variants["b"] = Integer("2")
    /\ TheFeature.variants["c"] = Integer("3")
    /\ TheFeature.rules[Len(TheFeature.rules)].buckets =
           <<[variant |-> "a", lower_bound |-> 0, upper_bound |-> 34],
             [variant |-> "b", lower_bound |-> 34, upper_bound |-> 67],
             [variant |-> "c", lower_bound |-> 67, upper_bound |-> 100]>>

\* no audience rule of the feature matches the decided context
NoAudienceMatches ==
    \A i \in 1..(Len(TheFeature.rules) - 1) :
        ExpressionOutcome(TheFeature.rules[i], EnvOf(Unwrap(decideCtx))) = "false"

SplitDecision(variant, value, hash) ==
    /\ IsSome(decision)
    /\ Unwrap(decision).variant = variant
    /\ Unwrap(decision).value = value
    /\ Unwrap(decision).reason = "Split"
    /\ Unwrap(decision).hash = hash

\* C24: for the enabled feature "exp" with integer variants a=1, b=2, c=3 and
\* the default rule split a:34, b:33, c:33, a context that matches no audience
\* resolves by the default rule with reason Split: user key "g" to variant a
\* with value 1 (Murmur3-32 with seed 0 of "expg" is 2826348013, which is 13
\* modulo 100), user key "a" to variant b with value 2 (2809589940, 40) and
\* user key "b" to variant c with value 3 (2913978796, 96).
C24_SplitRegression ==
    (Decided /\ TheExperiment /\ NoAudienceMatches) =>
        /\ Unwrap(decideCtx).user_key = "g" =>
               /\ SplitDecision("a", Integer("1"), U32(43126, 42477))
               /\ HashMod(Unwrap(decision).hash) = 13
        /\ Unwrap(decideCtx).user_key = "a" =>
               /\ SplitDecision("b", Integer("2"), U32(42870, 61620))
               /\ HashMod(Unwrap(decision).hash) = 40
        /\ Unwrap(decideCtx).user_key = "b" =>
               /\ SplitDecision("c", Integer("3"), U32(44463, 51628))
               /\ HashMod(Unwrap(decision).hash) = 96

C24_Witness ==
    /\ Decided
    /\ TheExperiment
    /\ NoAudienceMatches
    /\ Unwrap(decideCtx).user_key = "g"
    /\ SplitDecision("a", Integer("1"), U32(43126, 42477))

\* byte sequence x comes strictly before byte sequence y (the order of str)
RECURSIVE LexLess(_, _)
LexLess(x, y) ==
    IF y = <<>> THEN FALSE
    ELSE IF x = <<>> THEN TRUE
    ELSE IF x[1] # y[1] THEN x[1] < y[1]
    ELSE LexLess(Tail(x), Tail(y))

\* the percentages of the variants of the distribution that sort before variant
RECURSIVE SumBefore(_, _, _)
SumBefore(distribution, variant, names) ==
    IF names = {} THEN 0
    ELSE LET n == CHOOSE x \in names : TRUE
         IN  (IF LexLess(Bytes(n), Bytes(variant)) THEN distribution[n] ELSE 0)
             + SumBefore(distribution, variant, names \ {n})

\* the Feature came from a configuration whose default rule is a Distribution
BuiltFromDistribution ==
    /\ FeatureBuilt
    /\ IsSome(featureCfg)
    /\ Unwrap(featureCfg).default_rule.bucketing.kind = "Distribution"

TheDistribution == Unwrap(featureCfg).default_rule.bucketing.distribution

DefaultBuckets == TheFeature.rules[Len(TheFeature.rules)].buckets

\* the documents that list the mapping of the configuration, in any order
DocumentsOfConfig ==
    {doc \in DocumentInputs : FeatureConfig_from_document(doc) = Unwrap(featureCfg)}

\* C29: a Feature built from a configuration with a Distribution bucketing
\* has the buckets of that rule in ascending lexicographic order of variant
\* name, each bucket starting at the sum of the percentages of the names
\* before it; every document that lists the same mapping, in whatever order,
\* gives the same Feature, hence the same bounds and the same variant for
\* every hash.
C29_BucketsInNameOrder ==
    BuiltFromDistribution =>
        /\ Len(DefaultBuckets) = Cardinality(DOMAIN TheDistribution)
        /\ \A i, j \in 1..Len(DefaultBuckets) :
               i < j => LexLess(Bytes(DefaultBuckets[i].variant),
                                Bytes(DefaultBuckets[j].variant))
        /\ \A i \in 1..Len(DefaultBuckets) :
               LET b == DefaultBuckets[i]
               IN  /\ b.variant \in DOMAIN TheDistribution
                   /\ b.lower_bound =
                          SumBefore(TheDistribution, b.variant, DOMAIN TheDistribution)
                   /\ b.upper_bound = b.lower_bound + TheDistribution[b.variant]
        /\ \A doc \in DocumentsOfConfig :
               LET other == Feature_from_config(TheFeature.name,
                                                FeatureConfig_from_document(doc))
               IN  /\ other = Unwrap(featRes)
                   /\ \A r \in 0..99 :
                          Rule_get_variant(other.val.rules[Len(other.val.rules)], U32(0, r))
                              = Rule_get_variant(TheFeature.rules[Len(TheFeature.rules)],
                                                 U32(0, r))

C29_Witness ==
    /\ BuiltFromDistribution
    /\ Len(DefaultBuckets) = 3
    /\ DefaultBuckets[1].variant = "a"
    /\ DefaultBuckets[2] = [variant |-> "b", lower_bound |-> 50, upper_bound |-> 75]
    /\ \E doc \in DocumentsOfConfig : doc.members[1][1] = "c" /\ doc.members[3][1] = "a"

\* the residues for which the search of get_variant stops at bucket i
ResiduesOfBucket(rule, i) ==
    {r \in 0..99 :
        /\ InBucket(rule.buckets[i], r)
        /\ \A j \in 1..(i - 1) : ~InBucket(rule.buckets[j], r)}

\* C27: in a built Rule the number of residues 0..99 for which get_variant
\* stops at a bucket is that bucket's percentage, and get_variant returns the
\* variant of that bucket; a bucket of percentage 0 is never selected, yet its
\* variant is among the referenced variants and it counts as a bucket for the
\* Split / MatchSplit classification; a rule with reason Static or Match
\* returns one variant for every hash.
C27_BucketSharesArePercentages ==
    RuleBuilt =>
        /\ Len(TheRule.buckets) = Len(rb.percentages)
        /\ \A i \in 1..Len(TheRule.buckets) :
               /\ Cardinality(ResiduesOfBucket(TheRule, i)) = rb.percentages[i][2]
               /\ \A r \in ResiduesOfBucket(TheRule, i) :
                      Rule_get_variant(TheRule, U32(0, r)) = Some(TheRule.buckets[i].variant)
               /\ rb.percentages[i][2] = 0 =>
                      /\ ResiduesOfBucket(TheRule, i) = {}
                      /\ \E k \in DOMAIN Rule_referenced_variants(TheRule) :
                             Rule_referenced_variants(TheRule)[k] = rb.percentages[i][1]
                      /\ TheRule.reason \in {"Split", "MatchSplit"}
        /\ TheRule.reason \in {"Static", "Match"} =>
               /\ \A r \in 0..99 :
                      Rule_get_variant(TheRule, U32(0, r)) = Some(TheRule.buckets[1].variant)
               /\ IsSome(lookup) =>
                      Unwrap(lookup).variant = Some(TheRule.buckets[1].variant)

\* a:0, b:100 was built (reason Split) and a lookup gave "b"
C27_Witness ==
    /\ RuleBuilt
    /\ rb.percentages = <<(<<"a", 0>>), (<<"b", 100>>)>>
    /\ TheRule.reason = "Split"
    /\ ResiduesOfBucket(TheRule, 1) = {}
    /\ Cardinality(ResiduesOfBucket(TheRule, 2)) = 100
    /\ IsSome(lookup)
    /\ Unwrap(lookup).variant = Some("b")

\* the percentages handed to the builder are empty or do not sum to 100
InvalidPercentages ==
    rb.percentages = <<>> \/ SumOfPercentages(rb.percentages) # 100

\* the builder holds an audience expression that does not compile
ExpressionDoesNotCompile ==
    IsSome(rb.audience) /\ ~mexl_compile(Unwrap(rb.audience)[2]).ok

BuildFailedWith(kind) ==
    IsSome(ruleRes) /\ ~Unwrap(ruleRes).ok /\ Unwrap(ruleRes).val.kind = kind

\* C28: RuleBuilder::build checks the buckets before it compiles the audience
\* expression: with percentages that are empty or do not sum to 100 and an
\* expression that does not compile it fails with the Configuration error
\* "invalid variant configuration", never with a Targeting error; a Targeting
\* error from build implies valid percentages (and an expression that does
\* not compile).
C28_BucketsValidatedBeforeExpression ==
    IsSome(ruleRes) =>
        /\ (InvalidPercentages /\ ExpressionDoesNotCompile) =>
               /\ BuildFailedWith("Configuration")
               /\ Unwrap(ruleRes).val.msg = "invalid variant configuration"
        /\ BuildFailedWith("Targeting") =>
               /\ ~InvalidPercentages
               /\ ExpressionDoesNotCompile

\* a:40 with the expression "+2" was built and failed on the percentages
C28_Witness ==
    /\ BuildFailedWith("Configuration")
    /\ rb.percentages = <<(<<"a", 40>>)>>
    /\ ExpressionDoesNotCompile

\* the ValueType the Feature was declared with
DeclaredType ==
    IF IsSome(featureCfg) THEN Unwrap(featureCfg).value_type ELSE Unwrap(fb).value_type

\* the Decision names a variant of the feature and carries its value
DecisionOfVariantMap ==
    /\ IsSome(decision)
    /\ Unwrap(decision).variant \in DOMAIN TheFeature.variants
    /\ Unwrap(decision).value = TheFeature.variants[Unwrap(decision).variant]
    /\ has_type(Unwrap(decision).value, DeclaredType)
    /\ Unwrap(decision).value # Null

LastCall == Unwrap(last[HostThread])

\* the number of features in the registry
RegistrySize == Cardinality(DOMAIN registry.features)

\* the event that carries the feature key, the user key and the variant,
\* reason, value and audience of a returned Decision
EventOf(feature_key, user_key, d) ==
    [feature_key |-> feature_key, user_key |-> user_key, variant |-> d.variant,
     reason |-> d.reason, value |-> d.value, audience |-> d.audience]

\* the events owed for a call: one for a decide whose context parsed, one for
\* each returned Decision of a decide_all whose context parsed, none otherwise
EventsOwed(call) ==
    CASE call.op = "decide" /\ IsSome(call.args[2]) ->
             {EventOf(call.args[1], Unwrap(call.args[2]).user_key, call.ret)}
      [] call.op = "decide_all" /\ IsSome(call.args[1]) ->
             {EventOf(n, Unwrap(call.args[1]).user_key, call.ret.val[n]) :
                 n \in DOMAIN call.ret.val}
      [] OTHER -> {}

EventsMatchDecisions ==
    IsSome(last[HostThread]) =>
        /\ LastCall.events = EventsOwed(LastCall)
        /\ (LastCall.op = "decide" /\ IsSome(LastCall.args[2])) =>
               Cardinality(LastCall.events) = 1
        /\ (LastCall.op = "decide_all" /\ IsSome(LastCall.args[1])) =>
               /\ LastCall.ret.ok
               /\ Cardinality(LastCall.events) = Cardinality(DOMAIN LastCall.ret.val)

\* C25 as stated: every decide_all call, whether or not its context parses,
\* emits one event per registered feature, so the host has received
\* n + m * k events after n decide calls whose context parsed and m
\* decide_all calls on a registry of k features.
C25_EveryDecideAllEmits ==
    /\ EventsMatchDecisions
    /\ host.received = host.decides + (host.alls + host.refused) * RegistrySize

\* C25: every decide call whose context parses emits exactly one tracking
\* event, also when the Decision is an Error for an unknown feature, and every
\* decide_all call whose context parses emits one event for each registered
\* feature; a call whose context does not parse emits none. After n such
\* decide calls and m such decide_all calls on a registry of k features the
\* host has received n + m * k events, each with the feature key, the user
\* key and the variant, reason, value and audience of its Decision.
C25_EventsPerParsedCall ==
    /\ EventsMatchDecisions
    /\ host.received = host.decides + host.alls * RegistrySize

\* on a registry of one feature a decide_all and then a decide of an unknown
\* feature have returned: the host holds two events
C25_Witness ==
    /\ RegistrySize = 1
    /\ host.alls = 1
    /\ host.decides = 1
    /\ host.received = 2
    /\ IsSome(last[HostThread])
    /\ LastCall.op = "decide"
    /\ LastCall.ret.reason = "Error"
    /\ Cardinality(LastCall.events) = 1

\* C30: until an init has returned Ok the registry is the empty default
\* Features whenever no init holds the write lock: decide then gives, for every
\* feature key and every context that parses, an Error decision with the
\* Request error "invalid feature", the empty variant, the Null value and the
\* hash of feature key and user key, and decide_all gives the empty list; the
\* exports return just that, also after init calls that failed.
C30_DefaultRegistryBeforeInit ==
    ~host.initialised =>
        /\ writer = None =>
               /\ DOMAIN registry.features = {}
               /\ \A k \in FeatureKeyInputs, c \in ParsedContexts :
                      LET d == Features_decide(registry, k, c)
                      IN  /\ IsSome(d)
                          /\ Unwrap(d).reason = "Error"
                          /\ Unwrap(d).error = Some(Request("invalid feature: " \o k))
                          /\ Unwrap(d).variant = ""
                          /\ Unwrap(d).value = Null
                          /\ Unwrap(d).hash = calculate(k, c.user_key)
               /\ \A c \in ParsedContexts :
                      /\ IsSome(Features_decide_all(registry, c))
                      /\ DOMAIN Unwrap(Features_decide_all(registry, c)) = {}
        /\ (IsSome(last[HostThread]) /\ LastCall.op = "decide"
                /\ IsSome(LastCall.args[2])) =>
               /\ LastCall.ret.reason = "Error"
               /\ LastCall.ret.error =
                      Some("Request error: invalid feature: " \o LastCall.args[1])
               /\ LastCall.ret.variant = ""
               /\ LastCall.ret.value = Null
               /\ LastCall.ret.hash =
                      calculate(LastCall.args[1], Unwrap(LastCall.args[2]).user_key)
        /\ (IsSome(last[HostThread]) /\ LastCall.op = "decide_all"
                /\ IsSome(LastCall.args[1])) =>
               /\ LastCall.ret.ok
               /\ DOMAIN LastCall.ret.val = {}

\* after a failed init and no successful one, decide has returned the
\* Request error
C30_Witness ==
    /\ ~host.initialised
    /\ host.failed
    /\ IsSome(last[HostThread])
    /\ LastCall.op = "decide"
    /\ IsSome(LastCall.args[2])
    /\ LastCall.ret.reason = "Error"
    /\ LastCall.ret.hash = U32(43126, 42477)

====
